---- MODULE Spec2Model ----
(***************************************************************************)
(* watchd: the execution engine (runner.py), the state proxy (agent.py)    *)
(* and the SQLite storage layer (store.py), as a state machine.            *)
(*                                                                         *)
(* Every storage call commits before it returns, so one storage call is    *)
(* one step.  What a thread does between two storage calls touches only    *)
(* its own frame and is folded into the step of the next shared effect.    *)
(* The agent callable is the environment: while a worker is inside         *)
(* agent.fn(ctx) it may read, assign or delete state keys, write to        *)
(* standard output, return a value, raise an Exception or be interrupted   *)
(* by a BaseException.  Time is logical: every datetime.now() reading     *)
(* returns the clock and advances it.  The storage errors modelled are the *)
(* ones the inputs decide (a duplicate or unreferenced key on INSERT,      *)
(* json.dumps of a value JSON cannot hold) and, in SpecContext, a read of  *)
(* the state table that fails under the callable.  SpecStore takes the     *)
(* state-table calls apart into their statements and their commit.         *)
(*                                                                         *)
(* Around the engine: the module-level registry (registry.py), the Watchd  *)
(* instance and its run() (app.py), discover_agents (discovery.py) and     *)
(* deploy (deploy.py), each with a specification of its own; the files a   *)
(* directory holds and the exit status of each deploy command are the      *)
(* environment's.                                                          *)
(***************************************************************************)
EXTENDS Integers, Sequences, FiniteSets, TLC

VARIABLES
    agents,        \* table agents: name -> [schedule, retries]
    runs,          \* table runs: id -> row
    agent_state,   \* table agent_state: agent -> (key -> JSON text)
    clock,         \* what datetime.now() returns; every reading advances it
    stdout_depth,  \* number of _ThreadSafeStream wrappers around sys.stdout
    original,      \* what reached the original stream, in order
    local_buf,     \* threading.local: worker -> _local.buf
    frame,         \* worker -> the locals of its execute_agent call
    proxy,         \* worker -> the StateProxy of its AgentContext
    ghost,         \* worker -> history of the current call (not program state)
    conn,          \* worker -> its thread-local connection and storage call
    registry,      \* registry.py: _registry, name -> Agent
    app,           \* app.py: the Watchd instance and its run() call
    remote,        \* deploy.py: the deploy call and the host it deploys to
    discovery,     \* discovery.py: the discover_agents call
    call           \* the call last made from outside, with its arguments

engine_vars == <<agents, runs, agent_state, clock, stdout_depth, original,
                 local_buf, frame, proxy, ghost, conn>>
outer_vars == <<registry, app, remote, discovery, call>>
vars == <<engine_vars, outer_vars>>

----------------------------------------------------------------------------
(* Bounds of the model. *)

MaxRetries == 2
MaxWrites == 1
MaxClock == 4

Workers == {"w1", "w2"}
AgentNames == {"a", "b"}
Keys == {"k"}
RunIds == {1, 2}

(* Optional values: None, or a one-element tuple. *)
None == <<>>
Some(x) == <<x>>

----------------------------------------------------------------------------
(* Python values an agent handles, and the conversions applied to them. *)

PyNone == [ty |-> "none", n |-> 0, s |-> ""]
PyInt(i) == [ty |-> "int", n |-> i, s |-> ""]
PyText(t) == [ty |-> "str", n |-> 0, s |-> t]
PyTuple(i) == [ty |-> "tuple", n |-> i, s |-> ""]
PyList(i) == [ty |-> "list", n |-> i, s |-> ""]
PyObject == [ty |-> "object", n |-> 0, s |-> ""]

Digit(d) == <<"0", "1", "2", "3", "4", "5", "6", "7", "8", "9">>[d + 1]

RECURSIVE IntToStr(_)
IntToStr(i) == IF i < 10 THEN Digit(i) ELSE IntToStr(i \div 10) \o Digit(i % 10)

(* str(value) *)
PyStr(v) ==
    CASE v.ty = "int" -> IntToStr(v.n)
      [] v.ty = "str" -> v.s
      [] v.ty = "none" -> "None"
      [] v.ty = "tuple" -> "(" \o IntToStr(v.n) \o ",)"
      [] v.ty = "list" -> "[" \o IntToStr(v.n) \o "]"
      [] OTHER -> "<object>"

(* json.dumps raises TypeError for a value JSON cannot represent *)
Serializable(v) == v.ty # "object"

json_dumps(v) ==
    CASE v.ty = "int" -> [js |-> "number", n |-> v.n, s |-> ""]
      [] v.ty = "str" -> [js |-> "string", n |-> 0, s |-> v.s]
      [] v.ty = "none" -> [js |-> "null", n |-> 0, s |-> ""]
      [] OTHER -> [js |-> "array", n |-> v.n, s |-> ""]

json_loads(j) ==
    CASE j.js = "number" -> PyInt(j.n)
      [] j.js = "string" -> PyText(j.s)
      [] j.js = "null" -> PyNone
      [] OTHER -> PyList(j.n)

(* traceback.format_exception(e)[-1].strip() *)
format_exception_last(e) ==
    IF e.msg = "" THEN e.type ELSE e.type \o ": " \o e.msg

(* f"{type(e).__name__}: {e}" *)
format_interrupt(e) == e.type \o ": " \o e.msg

(* bool(e): an exception object is true unless its class defines __bool__
   or __len__ otherwise *)
Truthy(last_error) == last_error # None /\ last_error[1].truthy

(* datetime.isoformat / datetime.fromisoformat *)
to_iso(dt) == IF dt = None THEN None ELSE Some([iso |-> dt[1]])
parse_iso(s) == IF s = None THEN None ELSE Some(s[1].iso)

----------------------------------------------------------------------------
(* store.py *)

Run(id, agent, status, started_at) ==
    [id |-> id, agent |-> agent, status |-> status, result |-> None,
     output |-> None, error |-> None, started_at |-> started_at,
     finished_at |-> None, duration_ms |-> None]

(* the INSERT with foreign keys not enforced *)
save_run_ok_no_foreign_key(run) == run.id \notin DOMAIN runs

(* INSERT INTO runs: fails on a duplicate primary key and, with
   PRAGMA foreign_keys=ON, on an agent that is not in the agents table *)
save_run_ok(run) == run.id \notin DOMAIN runs /\ run.agent \in DOMAIN agents

RowOf(run) ==
    [id |-> run.id, agent |-> run.agent, status |-> run.status,
     result |-> run.result, output |-> run.output, error |-> run.error,
     started_at |-> to_iso(run.started_at),
     finished_at |-> to_iso(run.finished_at),
     duration_ms |-> run.duration_ms]

(* the INSERT is never committed *)
save_run_uncommitted(run) == runs

save_run(run) ==
    [i \in DOMAIN runs \cup {run.id} |->
        IF i = run.id THEN RowOf(run) ELSE runs[i]]

(* the terminal outcome is written as a new row instead of in place *)
update_run_as_insert(run) ==
    [i \in DOMAIN runs \cup {run.id + 100} |->
        IF i = run.id + 100 THEN RowOf([run EXCEPT !.id = run.id + 100])
        ELSE runs[i]]

(* the UPDATE has no WHERE clause: it rewrites every row *)
update_run_all(run) ==
    [i \in DOMAIN runs |->
        [runs[i] EXCEPT !.status = run.status, !.result = run.result,
                        !.output = run.output, !.error = run.error,
                        !.finished_at = to_iso(run.finished_at),
                        !.duration_ms = run.duration_ms]]

(* the UPDATE selects by agent: WHERE agent = ? *)
update_run_by_agent(run) ==
    [i \in DOMAIN runs |->
        IF runs[i].agent = run.agent
        THEN [runs[i] EXCEPT !.status = run.status, !.result = run.result,
                             !.output = run.output, !.error = run.error,
                             !.finished_at = to_iso(run.finished_at),
                             !.duration_ms = run.duration_ms]
        ELSE runs[i]]

(* UPDATE runs SET status, result, output, error, finished_at, duration_ms
   WHERE id = ? *)
update_run(run) ==
    [i \in DOMAIN runs |->
        IF i = run.id
        THEN [runs[i] EXCEPT !.status = run.status, !.result = run.result,
                             !.output = run.output, !.error = run.error,
                             !.finished_at = to_iso(run.finished_at),
                             !.duration_ms = run.duration_ms]
        ELSE runs[i]]

(* a read that drops the output column *)
row_to_run_no_output(row) ==
    [id |-> row.id, agent |-> row.agent, status |-> row.status,
     result |-> row.result, output |-> None, error |-> row.error,
     started_at |-> parse_iso(row.started_at),
     finished_at |-> parse_iso(row.finished_at),
     duration_ms |-> row.duration_ms]

row_to_run(row) ==
    [id |-> row.id, agent |-> row.agent, status |-> row.status,
     result |-> row.result, output |-> row.output, error |-> row.error,
     started_at |-> parse_iso(row.started_at),
     finished_at |-> parse_iso(row.finished_at),
     duration_ms |-> row.duration_ms]

get_run(run_id) ==
    IF run_id \in DOMAIN runs THEN Some(row_to_run(runs[run_id])) ELSE None

(* the rows of `ids`, latest started_at first (ORDER BY started_at DESC) *)
RECURSIVE OrderByStartedDesc(_)
OrderByStartedDesc(ids) ==
    IF ids = {} THEN <<>>
    ELSE LET first == CHOOSE i \in ids : \A j \in ids :
                          runs[j].started_at[1].iso <= runs[i].started_at[1].iso
         IN <<row_to_run(runs[first])>> \o OrderByStartedDesc(ids \ {first})

(* SELECT * FROM runs WHERE agent=? ORDER BY started_at DESC LIMIT ? *)
get_runs(agent_name, limit) ==
    LET rows == OrderByStartedDesc({i \in DOMAIN runs :
                                       runs[i].agent = agent_name})
    IN SubSeq(rows, 1, IF Len(rows) < limit THEN Len(rows) ELSE limit)

get_state(agent_name) ==
    [k \in DOMAIN agent_state[agent_name] |->
        json_loads(agent_state[agent_name][k])]

(* the upserts are never committed *)
set_state_bulk_uncommitted(agent_name, data) == agent_state

(* ON CONFLICT DO NOTHING: a key the table holds keeps its value *)
set_state_bulk_keep_existing(agent_name, data) ==
    [agent_state EXCEPT ![agent_name] =
        [k \in DOMAIN @ \cup DOMAIN data |->
            IF k \in DOMAIN @ THEN @[k] ELSE json_dumps(data[k])]]

set_state_bulk(agent_name, data) ==
    [agent_state EXCEPT ![agent_name] =
        [k \in DOMAIN @ \cup DOMAIN data |->
            IF k \in DOMAIN data THEN json_dumps(data[k]) ELSE @[k]]]

(* INSERT INTO agent_state: with PRAGMA foreign_keys=ON it fails on an
   agent that is not in the agents table *)
set_state_ok(agent_name) == agent_name \in DOMAIN agents

(* a failed bulk upsert that keeps the rows written before the failure *)
set_state_bulk_failed_partial(agent_name, data) ==
    set_state_bulk(agent_name,
                   [k \in {x \in DOMAIN data : Serializable(data[x])} |-> data[k]])

(* lines 156-164 when json.dumps raises inside the loop: `with self.conn`
   rolls the transaction back, so no row of the call is stored *)
set_state_bulk_failed(agent_name, data) == agent_state

(* the DELETEs are never committed *)
delete_state_keys_uncommitted(agent_name, keys) == agent_state

delete_state_keys(agent_name, keys) ==
    [agent_state EXCEPT ![agent_name] = [k \in DOMAIN @ \ keys |-> @[k]]]

(* INSERT OR IGNORE: a name the table holds keeps its row *)
sync_agent_insert_or_ignore(name, schedule_str, retries) ==
    [n \in DOMAIN agents \cup {name} |->
        IF n = name /\ n \notin DOMAIN agents
        THEN [schedule |-> schedule_str, retries |-> retries]
        ELSE agents[n]]

(* INSERT INTO agents ... ON CONFLICT(name) DO UPDATE SET schedule, retries *)
sync_agent(name, schedule_str, retries) ==
    [n \in DOMAIN agents \cup {name} |->
        IF n = name THEN [schedule |-> schedule_str, retries |-> retries]
        ELSE agents[n]]

----------------------------------------------------------------------------
(* agent.py: StateProxy *)

(* __init__ sets _data to an empty dict instead of None *)
NewProxy_empty == [data |-> Some(<<>>), dirty |-> <<>>, deleted_keys |-> {}]

NewProxy == [data |-> None, dirty |-> <<>>, deleted_keys |-> {}]

(* _load: the first access reads the agent's whole state from storage *)
StateProxy_load(p, agent_name) ==
    IF p.data = None THEN [p EXCEPT !.data = Some(get_state(agent_name))]
    ELSE p

(* __getitem__: the value after the load, or None where self._data[key]
   raises KeyError *)
StateProxy_getitem(p, agent_name, key) ==
    LET q == StateProxy_load(p, agent_name)
    IN IF key \in DOMAIN q.data[1] THEN Some(q.data[1][key]) ELSE None

MapSet(m, k, v) == [x \in DOMAIN m \cup {k} |-> IF x = k THEN v ELSE m[x]]
MapDel(m, k) == [x \in DOMAIN m \ {k} |-> m[x]]

(* an assignment that reaches _data and not _dirty *)
StateProxy_setitem_not_dirty(p, agent_name, key, value) ==
    LET q == StateProxy_load(p, agent_name)
    IN [q EXCEPT !.data = Some(MapSet(q.data[1], key, value))]

(* __setitem__, lines 44-47 *)
StateProxy_setitem(p, agent_name, key, value) ==
    LET q == StateProxy_load(p, agent_name)
    IN [q EXCEPT !.data = Some(MapSet(q.data[1], key, value)),
                 !.dirty = MapSet(q.dirty, key, value)]

(* __setitem__ also writes the key to storage at once *)
StorageAfterSetitem_writethrough(agent_name, key, value) ==
    set_state_bulk(agent_name, [k \in {key} |-> value])

(* what __setitem__ does to storage: nothing, lines 45-47 touch only _data
   and _dirty *)
StorageAfterSetitem(agent_name, key, value) == agent_state

(* del that does not cancel the pending upsert of the key *)
StateProxy_delitem_keep_dirty(p, agent_name, key) ==
    LET q == StateProxy_load(p, agent_name)
    IN [q EXCEPT !.data = Some(MapDel(q.data[1], key)),
                 !.deleted_keys = @ \cup {key}]

(* defined when key is in the loaded data; otherwise del raises KeyError
   after the load *)
StateProxy_delitem(p, agent_name, key) ==
    LET q == StateProxy_load(p, agent_name)
    IN [q EXCEPT !.data = Some(MapDel(q.data[1], key)),
                 !.deleted_keys = @ \cup {key},
                 !.dirty = MapDel(q.dirty, key)]

(* agent.py: AgentContext.history *)
HistoryLimit == 10

AgentContext_history(agent_name) == get_runs(agent_name, HistoryLimit)

----------------------------------------------------------------------------
(* runner.py: output capture *)

(* one module-level buffer instead of a thread-local one: every thread sees
   the buffer of whichever scope is open *)
CurrentBuf_global(w) ==
    IF \E v \in Workers : local_buf[v] # None
    THEN local_buf[CHOOSE v \in Workers : local_buf[v] # None]
    ELSE None

(* getattr(_local, "buf", None) of the calling thread *)
CurrentBuf(w) == local_buf[w]

(* _ThreadSafeStream.write, through every installed wrapper: each wrapper
   appends to the calling thread's buffer, the innermost forwards to the
   original stream *)
RECURSIVE Repeat(_, _)
Repeat(c, n) == IF n = 0 THEN <<>> ELSE <<c>> \o Repeat(c, n - 1)

(* a piece of text: who wrote it, to which channel, and inside which run's
   capture scope (0 outside any, i.e. while _local.buf is None) *)
Chunk(w, s) ==
    [by |-> w,
     ch |-> "stdout",
     run |-> IF local_buf[w] = None THEN 0 ELSE frame[w].run[1].id,
     s |-> s]

stream_write(w, s) ==
    /\ original' = Append(original, Chunk(w, s))
    /\ frame' = [v \in Workers |->
                    IF CurrentBuf(w) = Some(v)
                    THEN [frame[v] EXCEPT
                            !.buf = @ \o Repeat(Chunk(w, s), stdout_depth)]
                    ELSE frame[v]]

(* a write to sys.stderr: _install_capture replaces sys.stdout only, so the
   text goes to the original stderr and to no buffer *)
stderr_write(w, s) ==
    /\ original' = Append(original, [Chunk(w, s) EXCEPT !.ch = "stderr"])
    /\ frame' = frame

----------------------------------------------------------------------------
(* The state after construction: Store.init() on a fresh database. *)

IdleFrame ==
    [pc |-> "idle", agent |-> None, run |-> None, ctx_run_id |-> None,
     attempts |-> 0,
     attempt |-> 0, last_error |-> None, buf |-> <<>>, pend |-> None,
     exc |-> None, ret |-> None]

(* History of the current call, kept for the properties only: how often the
   callable was invoked, how the invocations ended, which run ids they saw,
   how many rows the call inserted and updated, the ids of the runs the
   callable last got from ctx.history; and how often the thread has printed
   so far (MaxWrites bounds it). *)
NoGhost ==
    [calls |-> 0, inserts |-> 0, updates |-> 0, raised |-> None,
     fails |-> 0, returned |-> None, ids |-> {}, flushed |-> FALSE,
     writes |-> 0, hist |-> None]

(* A thread's connection (Store.conn, thread-local) and the storage call the
   thread is making on it: the entries the call was given, the statements
   still to execute, the open transaction (the state table as this
   connection sees it, its own uncommitted writes included), the state
   table as it was committed when the call took the write lock, the
   exception the call raised, and what the thread's last get_state
   returned. *)
IdleConn ==
    [pc |-> "idle", op |-> "", agent |-> "", items |-> <<>>, todo |-> <<>>,
     txn |-> None, before |-> None, exc |-> None, seen |-> None]

(* Nothing registered, no Watchd.run, deploy or discover_agents call made. *)
IdleApp == [agents |-> <<>>, pc |-> "idle", name |-> "", exc |-> None]
IdleRemote ==
    [pc |-> "idle", config |-> None, ts |-> 0, now |-> 0, log |-> <<>>,
     exc |-> None, prev |-> 0,
     \* the host: release directories, releases whose dependencies are
     \* installed, releases holding the db link (release -> link name),
     \* what `current` points to, the release the unit file names, the
     \* release the service runs
     releases |-> {}, synced |-> {}, db_links |-> <<>>, current |-> 0,
     unit |-> 0, service |-> 0]
IdleDiscovery ==
    [pc |-> "idle", dir |-> None, i |-> 0, failed |-> {}, result |-> None,
     exc |-> None]
NoOuterCall == [op |-> "", args |-> <<>>, exc |-> None, log |-> None]

InitOuter ==
    /\ registry = <<>>
    /\ app = IdleApp
    /\ remote = IdleRemote
    /\ discovery = IdleDiscovery
    /\ call = NoOuterCall

Init ==
    /\ agents = <<>>
    /\ runs = <<>>
    /\ agent_state = [a \in AgentNames |-> <<>>]
    /\ clock = 0
    /\ stdout_depth = 0
    /\ original = <<>>
    /\ local_buf = [w \in Workers |-> None]
    /\ frame = [w \in Workers |-> IdleFrame]
    /\ proxy = [w \in Workers |-> NewProxy]
    /\ ghost = [w \in Workers |-> NoGhost]
    /\ conn = [w \in Workers |-> IdleConn]
    /\ InitOuter

----------------------------------------------------------------------------
(* What the agent callable may do. *)

Errors ==
    {[type |-> "RuntimeError", msg |-> "e1", truthy |-> TRUE],
     [type |-> "ValueError", msg |-> "", truthy |-> TRUE],
     [type |-> "Empty", msg |-> "e2", truthy |-> FALSE]}

Interrupts == {[type |-> "KeyboardInterrupt", msg |-> "", truthy |-> TRUE]}

IntegrityError == [type |-> "IntegrityError", msg |-> "", truthy |-> TRUE]
TypeError == [type |-> "TypeError", msg |-> "", truthy |-> TRUE]

(* what a storage read raises when the database fails under it *)
StorageFaults ==
    {[type |-> "OperationalError", msg |-> "disk I/O error", truthy |-> TRUE]}

ReturnValues == {PyNone, PyInt(0), PyText("ok")}
StateValues == {PyInt(1), PyObject}

Finished(w) == frame[w].pc \in {"idle", "returned", "raised"}

----------------------------------------------------------------------------
(* Store.sync_agent, as the tests and Watchd._sync_agents call it *)
SyncAgent(a) ==
    /\ a \notin DOMAIN agents
    /\ agents' = sync_agent(a, None, 0)
    /\ UNCHANGED outer_vars
    /\ UNCHANGED <<runs, agent_state, clock, stdout_depth, original,
                   local_buf, frame, proxy, ghost, conn>>

----------------------------------------------------------------------------
(* runner.py: execute_agent(agent, store), agent = (name a, retries r) *)

(* line 51, _install_capture: the isinstance test *)
InstallCheck(w, a, r) ==
    /\ Finished(w)
    /\ frame' = [frame EXCEPT ![w] =
          [IdleFrame EXCEPT
              !.pc = IF stdout_depth = 0 THEN "install" ELSE "begin",
              !.agent = Some([name |-> a, retries |-> r])]]
    /\ proxy' = [proxy EXCEPT ![w] = NewProxy]
    /\ ghost' = [ghost EXCEPT ![w] =
                    [NoGhost EXCEPT !.writes = ghost[w].writes]]
    /\ UNCHANGED outer_vars
    /\ UNCHANGED <<agents, runs, agent_state, clock, stdout_depth, original,
                   local_buf, conn>>

(* line 47: sys.stdout = _ThreadSafeStream(sys.stdout) *)
InstallSet(w) ==
    /\ frame[w].pc = "install"
    /\ stdout_depth' = stdout_depth + 1
    /\ frame' = [frame EXCEPT ![w].pc = "begin"]
    /\ UNCHANGED outer_vars
    /\ UNCHANGED <<agents, runs, agent_state, clock, original, local_buf,
                   proxy, ghost, conn>>

(* lines 53-65: uuid4().hex[:12], the context, the Run, save_run, then the
   loop bounds and the capture buffer.  save_run raising leaves the call
   before the try block. *)
Begin(w, run_id) ==
    /\ frame[w].pc = "begin"
    /\ LET f == frame[w]
           run == Run(run_id, f.agent[1].name, "running", Some(clock))
       IN IF save_run_ok(run)
          THEN /\ runs' = save_run(run)
               /\ frame' = [frame EXCEPT ![w] =
                     [f EXCEPT !.pc = "loop", !.run = Some(run),
                               !.ctx_run_id = Some(run_id),
                               !.attempts = 1 + f.agent[1].retries,
                               !.attempt = 1, !.last_error = None,
                               !.buf = <<>>]]
               /\ local_buf' = [local_buf EXCEPT ![w] = Some(w)]
               /\ ghost' = [ghost EXCEPT ![w].inserts =
                     @ + Cardinality(DOMAIN runs') - Cardinality(DOMAIN runs)]
          ELSE /\ frame' = [frame EXCEPT ![w] =
                     [f EXCEPT !.pc = "raised", !.exc = Some(IntegrityError)]]
               /\ UNCHANGED <<runs, local_buf, ghost>>
    /\ clock' = clock + 1
    /\ UNCHANGED outer_vars
    /\ UNCHANGED <<agents, agent_state, stdout_depth, original, proxy, conn>>

(* lines 68-70: the next attempt calls agent.fn(ctx) *)
CallFn(w) ==
    /\ frame[w].pc = "loop"
    /\ frame[w].attempt <= frame[w].attempts
    /\ frame' = [frame EXCEPT ![w].pc = "in_fn"]
    /\ ghost' = [ghost EXCEPT ![w].calls = @ + 1,
                              ![w].ids = @ \cup {frame[w].ctx_run_id[1]}]
    /\ UNCHANGED outer_vars
    /\ UNCHANGED <<agents, runs, agent_state, clock, stdout_depth, original,
                   local_buf, proxy, conn>>

(* str(result) if result else None *)
OnReturn_truthiness(run, result) ==
    [run EXCEPT !.status = "success",
                !.result = IF result.ty # "none" /\ result # PyInt(0)
                              /\ result # PyText("")
                           THEN Some(PyStr(result)) ELSE None]

(* lines 71-72 *)
OnReturn(run, result) ==
    [run EXCEPT !.status = "success",
                !.result = IF result.ty # "none" THEN Some(PyStr(result))
                           ELSE None]

(* lines 82-84 *)
AfterLoop(run, last_error) ==
    IF Truthy(last_error)
    THEN [run EXCEPT !.status = "error",
                     !.error = Some(format_exception_last(last_error[1]))]
    ELSE run

(* lines 86-87 *)
OnInterrupt(run, e) ==
    [run EXCEPT !.status = "error", !.error = Some(format_interrupt(e))]

(* line 77: does the loop go round again after a failed attempt *)
MoreAttempts(attempt, attempts) == attempt < attempts

(* the callable returns: lines 71-74, then 82 with last_error = None *)
FnReturn(w, result) ==
    /\ frame[w].pc = "in_fn"
    /\ frame' = [frame EXCEPT ![w].pc = "finally",
                              ![w].last_error = None,
                              ![w].run = Some(AfterLoop(OnReturn(@[1], result),
                                                        None))]
    /\ ghost' = [ghost EXCEPT ![w].returned = Some(result)]
    /\ UNCHANGED outer_vars
    /\ UNCHANGED <<agents, runs, agent_state, clock, stdout_depth, original,
                   local_buf, proxy, conn>>

(* a failed attempt throws the state proxy away: the next attempt and the
   flush get a new one *)
FnRaise_new_proxy(w, e) ==
    /\ frame[w].pc = "in_fn"
    /\ LET f == frame[w]
       IN frame' = [frame EXCEPT ![w] =
             IF MoreAttempts(f.attempt, f.attempts)
             THEN [f EXCEPT !.pc = "loop", !.last_error = Some(e),
                            !.attempt = @ + 1]
             ELSE [f EXCEPT !.pc = "finally", !.last_error = Some(e),
                            !.run = Some(AfterLoop(@[1], Some(e)))]]
    /\ ghost' = [ghost EXCEPT ![w].raised = Some(e), ![w].fails = @ + 1]
    /\ proxy' = [proxy EXCEPT ![w] = NewProxy]
    /\ UNCHANGED outer_vars
    /\ UNCHANGED <<agents, runs, agent_state, clock, stdout_depth, original,
                   local_buf, conn>>

(* the callable raises an Exception: lines 75-80, and after the last
   attempt lines 82-84 *)
FnRaise(w, e) ==
    /\ frame[w].pc = "in_fn"
    /\ LET f == frame[w]
       IN frame' = [frame EXCEPT ![w] =
             IF MoreAttempts(f.attempt, f.attempts)
             THEN [f EXCEPT !.pc = "loop", !.last_error = Some(e),
                            !.attempt = @ + 1]
             ELSE [f EXCEPT !.pc = "finally", !.last_error = Some(e),
                            !.run = Some(AfterLoop(@[1], Some(e)))]]
    /\ ghost' = [ghost EXCEPT ![w].raised = Some(e), ![w].fails = @ + 1]
    /\ UNCHANGED outer_vars
    /\ UNCHANGED <<agents, runs, agent_state, clock, stdout_depth, original,
                   local_buf, proxy, conn>>

(* the callable is interrupted by a BaseException that is not an
   Exception: lines 85-88 *)
FnInterrupt(w, e) ==
    /\ frame[w].pc = "in_fn"
    /\ frame' = [frame EXCEPT ![w].pc = "finally",
                              ![w].pend = Some(e),
                              ![w].run = Some(OnInterrupt(@[1], e))]
    /\ ghost' = [ghost EXCEPT ![w].raised = Some(e)]
    /\ UNCHANGED outer_vars
    /\ UNCHANGED <<agents, runs, agent_state, clock, stdout_depth, original,
                   local_buf, proxy, conn>>

(* the callable reads ctx.state: the first access loads *)
StateGet(w) ==
    /\ frame[w].pc = "in_fn"
    /\ proxy[w].data = None
    /\ proxy' = [proxy EXCEPT ![w] =
                    StateProxy_load(@, frame[w].agent[1].name)]
    /\ UNCHANGED outer_vars
    /\ UNCHANGED <<agents, runs, agent_state, clock, stdout_depth, original,
                   local_buf, frame, ghost, conn>>

(* the callable's first access to ctx.state fails in Store.get_state
   (agent.py line 38) and the callable lets the exception through: it
   arrives at line 75 like any exception of the callable *)
StateGetFault(w, e) ==
    /\ proxy[w].data = None
    /\ FnRaise(w, e)

(* the callable reads ctx.history *)
ReadHistory(w) ==
    /\ frame[w].pc = "in_fn"
    /\ LET h == AgentContext_history(frame[w].agent[1].name)
       IN ghost' = [ghost EXCEPT ![w].hist =
                       Some([i \in 1..Len(h) |-> h[i].id])]
    /\ UNCHANGED outer_vars
    /\ UNCHANGED <<agents, runs, agent_state, clock, stdout_depth, original,
                   local_buf, frame, proxy, conn>>

(* __setitem__ serializes the value at once: one that JSON cannot hold
   raises TypeError in the callable *)
StateSet_checked(w, key, value) ==
    IF Serializable(value)
    THEN /\ frame[w].pc = "in_fn"
         /\ proxy' = [proxy EXCEPT ![w] =
                StateProxy_setitem(@, frame[w].agent[1].name, key, value)]
         /\ UNCHANGED outer_vars
         /\ UNCHANGED <<agents, runs, agent_state, clock, stdout_depth,
                        original, local_buf, frame, ghost, conn>>
    ELSE FnRaise(w, TypeError)

(* ctx.state[key] = value *)
StateSet(w, key, value) ==
    /\ frame[w].pc = "in_fn"
    /\ proxy' = [proxy EXCEPT ![w] =
                    StateProxy_setitem(@, frame[w].agent[1].name, key, value)]
    /\ agent_state' = StorageAfterSetitem(frame[w].agent[1].name, key, value)
    /\ UNCHANGED outer_vars
    /\ UNCHANGED <<agents, runs, clock, stdout_depth, original, local_buf,
                   frame, ghost, conn>>

(* del ctx.state[key], for a key the loaded data holds *)
StateDel(w, key) ==
    /\ frame[w].pc = "in_fn"
    /\ key \in DOMAIN StateProxy_load(proxy[w], frame[w].agent[1].name).data[1]
    /\ proxy' = [proxy EXCEPT ![w] =
                    StateProxy_delitem(@, frame[w].agent[1].name, key)]
    /\ UNCHANGED outer_vars
    /\ UNCHANGED <<agents, runs, agent_state, clock, stdout_depth, original,
                   local_buf, frame, ghost, conn>>

(* the callable prints *)
FnWrite(w) ==
    /\ frame[w].pc = "in_fn"
    /\ ghost[w].writes < MaxWrites
    /\ stream_write(w, "x")
    /\ ghost' = [ghost EXCEPT ![w].writes = @ + 1]
    /\ UNCHANGED outer_vars
    /\ UNCHANGED <<agents, runs, agent_state, clock, stdout_depth, local_buf,
                   proxy, conn>>

(* the callable writes to sys.stderr *)
FnWriteErr(w) ==
    /\ frame[w].pc = "in_fn"
    /\ ghost[w].writes < MaxWrites
    /\ stderr_write(w, "x")
    /\ ghost' = [ghost EXCEPT ![w].writes = @ + 1]
    /\ UNCHANGED outer_vars
    /\ UNCHANGED <<agents, runs, agent_state, clock, stdout_depth, local_buf,
                   proxy, conn>>

(* a thread that is not inside execute_agent prints *)
IdleWrite(w) ==
    /\ Finished(w)
    /\ ghost[w].writes < MaxWrites
    /\ stream_write(w, "x")
    /\ ghost' = [ghost EXCEPT ![w].writes = @ + 1]
    /\ UNCHANGED outer_vars
    /\ UNCHANGED <<agents, runs, agent_state, clock, stdout_depth, local_buf,
                   proxy, conn>>

(* the finally block goes to the row update without flushing the proxy *)
(* the finally block without its first statement *)
ClearHandle_keep(w) == local_buf

(* line 90: _local.buf = None *)
ClearHandle(w) == [local_buf EXCEPT ![w] = None]

FinallyFlushDelete_no_flush(w) ==
    /\ frame[w].pc = "finally"
    /\ local_buf' = [local_buf EXCEPT ![w] = None]
    /\ frame' = [frame EXCEPT ![w].pc = "update"]
    /\ ghost' = [ghost EXCEPT ![w].flushed = TRUE]
    /\ UNCHANGED outer_vars
    /\ UNCHANGED <<agents, runs, agent_state, clock, stdout_depth, original,
                   proxy, conn>>

(* lines 90-91: _local.buf = None, then StateProxy.flush up to and
   including delete_state_keys (agent.py lines 64-68) *)
FinallyFlushDelete(w) ==
    /\ frame[w].pc = "finally"
    /\ local_buf' = ClearHandle(w)
    /\ LET p == proxy[w]
           name == frame[w].agent[1].name
       IN IF p.data = None
          THEN /\ frame' = [frame EXCEPT ![w].pc = "update"]
               /\ UNCHANGED <<agent_state, proxy>>
          ELSE /\ agent_state' = IF p.deleted_keys # {}
                                 THEN delete_state_keys(name, p.deleted_keys)
                                 ELSE agent_state
               /\ proxy' = [proxy EXCEPT ![w].deleted_keys = {}]
               /\ frame' = [frame EXCEPT ![w].pc = "flush_set"]
    /\ ghost' = [ghost EXCEPT ![w].flushed = TRUE]
    /\ UNCHANGED outer_vars
    /\ UNCHANGED <<agents, runs, clock, stdout_depth, original, conn>>

(* a flush that writes the whole in-memory mapping back *)
PendingUpserts_all_data(p) == p.data[1]

(* agent.py line 70: what flush hands to set_state_bulk is self._dirty *)
PendingUpserts(p) == p.dirty

(* agent.py lines 69-71: set_state_bulk in one transaction; json.dumps
   raising TypeError rolls it back and the exception leaves the finally
   block, replacing a pending interruption *)
FlushSet(w) ==
    /\ frame[w].pc = "flush_set"
    /\ LET p == proxy[w]
           name == frame[w].agent[1].name
       IN IF \A k \in DOMAIN p.dirty : Serializable(p.dirty[k])
          THEN /\ agent_state' = IF DOMAIN p.dirty # {}
                                 THEN set_state_bulk(name, PendingUpserts(p))
                                 ELSE agent_state
               /\ proxy' = [proxy EXCEPT ![w].dirty = <<>>]
               /\ frame' = [frame EXCEPT ![w].pc = "update"]
          ELSE /\ frame' = [frame EXCEPT ![w].pc = "raised",
                                         ![w].exc = Some(TypeError)]
               /\ UNCHANGED <<agent_state, proxy>>
    /\ UNCHANGED outer_vars
    /\ UNCHANGED <<agents, runs, clock, stdout_depth, original, local_buf,
                   ghost, conn>>

(* line 95: store.update_run raises, for one, sqlite3.OperationalError
   when the database is locked; the exception leaves the finally block and
   replaces a pending one *)
UpdateRunFault(w, e) ==
    /\ frame[w].pc = "update"
    /\ frame' = [frame EXCEPT ![w].pc = "raised", ![w].exc = Some(e)]
    /\ UNCHANGED outer_vars
    /\ UNCHANGED <<agents, runs, agent_state, clock, stdout_depth, original,
                   local_buf, proxy, ghost, conn>>

(* lines 92-94 *)
Finalize(run, buf, now) ==
    [run EXCEPT !.output = IF buf = <<>> THEN None ELSE Some(buf),
                !.finished_at = Some(now),
                !.duration_ms = Some((now - run.started_at[1]) * 1000)]

(* lines 92-98: the row update, then the return or the re-raise *)
UpdateRun(w) ==
    /\ frame[w].pc = "update"
    /\ LET f == frame[w]
           run == Finalize(f.run[1], f.buf, clock)
       IN /\ runs' = update_run(run)
          /\ frame' = [frame EXCEPT ![w] =
                IF f.pend = None
                THEN [f EXCEPT !.pc = "returned", !.run = Some(run),
                               !.ret = Some(run)]
                ELSE [f EXCEPT !.pc = "raised", !.run = Some(run),
                               !.exc = f.pend]]
    /\ clock' = clock + 1
    /\ ghost' = [ghost EXCEPT ![w].updates = @ + 1,
                              ![w].inserts =
                     @ + Cardinality(DOMAIN runs') - Cardinality(DOMAIN runs)]
    /\ UNCHANGED outer_vars
    /\ UNCHANGED <<agents, agent_state, stdout_depth, original, local_buf,
                   proxy, conn>>

----------------------------------------------------------------------------
(* One worker running one agent with any retry count and any callable, on
   a fresh database. MaxClock bounds how many calls are made. *)

Next ==
    \/ SyncAgent("a")
    \/ /\ clock + 2 <= MaxClock
       /\ \E r \in 0..MaxRetries : InstallCheck("w1", "a", r)
    \/ InstallSet("w1")
    \/ \E id \in RunIds : Begin("w1", id)
    \/ CallFn("w1")
    \/ \E v \in ReturnValues : FnReturn("w1", v)
    \/ \E e \in Errors : FnRaise("w1", e)
    \/ \E e \in Interrupts : FnInterrupt("w1", e)
    \/ StateGet("w1")
    \/ \E k \in Keys, v \in StateValues : StateSet("w1", k, v)
    \/ \E k \in Keys : StateDel("w1", k)
    \/ FnWrite("w1")
    \/ FinallyFlushDelete("w1")
    \/ FlushSet("w1")
    \/ UpdateRun("w1")

Spec == Init /\ [][Next]_vars

----------------------------------------------------------------------------
(* Two worker threads, each running its own agent, both agents synced:
   the runs overlap in every way and both threads print, inside and
   outside their runs. *)

AgentOf(w) == IF w = "w1" THEN "a" ELSE "b"

InitCapture ==
    /\ agents = [n \in AgentNames |-> [schedule |-> None, retries |-> 0]]
    /\ runs = <<>>
    /\ agent_state = [a \in AgentNames |-> <<>>]
    /\ clock = 0
    /\ stdout_depth = 0
    /\ original = <<>>
    /\ local_buf = [w \in Workers |-> None]
    /\ frame = [w \in Workers |-> IdleFrame]
    /\ proxy = [w \in Workers |-> NewProxy]
    /\ ghost = [w \in Workers |-> NoGhost]
    /\ conn = [w \in Workers |-> IdleConn]
    /\ InitOuter

NextCapture ==
    \E w \in Workers :
        \/ /\ clock + 2 <= MaxClock
           /\ InstallCheck(w, AgentOf(w), 0)
        \/ InstallSet(w)
        \/ \E id \in RunIds : Begin(w, id)
        \/ CallFn(w)
        \/ FnReturn(w, PyNone)
        \/ FnWrite(w)
        \/ IdleWrite(w)
        \/ FinallyFlushDelete(w)
        \/ UpdateRun(w)

SpecCapture == InitCapture /\ [][NextCapture]_vars

----------------------------------------------------------------------------
(* The counter agent of the tests, run again and again by one worker:
       count = ctx.state.get("count", 0) + 1
       ctx.state["count"] = count
       return f"count={count}"                                           *)

MaxCount == 3

CounterFn(w) ==
    /\ frame[w].pc = "in_fn"
    /\ LET name == frame[w].agent[1].name
           loaded == StateProxy_load(proxy[w], name)
           data == loaded.data[1]
           count == (IF "count" \in DOMAIN data THEN data["count"].n ELSE 0) + 1
           result == PyText("count=" \o IntToStr(count))
       IN /\ proxy' = [proxy EXCEPT ![w] =
                StateProxy_setitem(loaded, name, "count", PyInt(count))]
          /\ agent_state' = StorageAfterSetitem(name, "count", PyInt(count))
          /\ frame' = [frame EXCEPT
                ![w].pc = "finally",
                ![w].last_error = None,
                ![w].run = Some(AfterLoop(OnReturn(@[1], result), None))]
          /\ ghost' = [ghost EXCEPT ![w].returned = Some(result)]
    /\ UNCHANGED outer_vars
    /\ UNCHANGED <<agents, runs, clock, stdout_depth, original, local_buf,
                   conn>>

InitCounter ==
    /\ agents = [n \in {"a"} |-> [schedule |-> None, retries |-> 0]]
    /\ runs = <<>>
    /\ agent_state = [a \in AgentNames |-> <<>>]
    /\ clock = 0
    /\ stdout_depth = 0
    /\ original = <<>>
    /\ local_buf = [w \in Workers |-> None]
    /\ frame = [w \in Workers |-> IdleFrame]
    /\ proxy = [w \in Workers |-> NewProxy]
    /\ ghost = [w \in Workers |-> NoGhost]
    /\ conn = [w \in Workers |-> IdleConn]
    /\ InitOuter

NextCounter ==
    \/ /\ clock + 2 <= 2 * MaxCount
       /\ \E r \in 0..MaxRetries : InstallCheck("w1", "a", r)
    \/ InstallSet("w1")
    \/ \E id \in 1..MaxCount : Begin("w1", id)
    \/ CallFn("w1")
    \/ CounterFn("w1")
    \/ FnWrite("w1")
    \/ FinallyFlushDelete("w1")
    \/ FlushSet("w1")
    \/ UpdateRun("w1")

SpecCounter == InitCounter /\ [][NextCounter]_vars

----------------------------------------------------------------------------
(* Two workers running the counter agent "a" at the same time: each call
   has its own AgentContext and StateProxy (runner.py line 56), and nothing
   orders one call's load and flush against the other's. *)

NextRace ==
    \E w \in Workers :
        \/ /\ clock + 2 <= MaxClock
           /\ InstallCheck(w, "a", 0)
        \/ InstallSet(w)
        \/ \E id \in RunIds : Begin(w, id)
        \/ CallFn(w)
        \/ CounterFn(w)
        \/ FinallyFlushDelete(w)
        \/ FlushSet(w)
        \/ UpdateRun(w)

SpecRace == InitCounter /\ [][NextRace]_vars

----------------------------------------------------------------------------
(* One worker running the synced agent "a" with retries: in each attempt
   the callable reads, assigns or deletes a state key and then returns,
   raises or is interrupted. *)

NextAttempts ==
    \/ /\ clock + 2 <= MaxClock
       /\ \E r \in 0..MaxRetries : InstallCheck("w1", "a", r)
    \/ InstallSet("w1")
    \/ \E id \in RunIds : Begin("w1", id)
    \/ CallFn("w1")
    \/ FnReturn("w1", PyNone)
    \/ \E e \in Errors : FnRaise("w1", e)
    \/ \E e \in Interrupts : FnInterrupt("w1", e)
    \/ StateGet("w1")
    \/ \E k \in Keys, v \in StateValues : StateSet("w1", k, v)
    \/ \E k \in Keys : StateDel("w1", k)
    \/ FinallyFlushDelete("w1")
    \/ FlushSet("w1")
    \/ UpdateRun("w1")

SpecAttempts == InitCounter /\ [][NextAttempts]_vars

----------------------------------------------------------------------------
(* One worker running a synced agent whose callable uses its context: it
   reads ctx.history, reads ctx.state (and the read may fail in storage),
   and writes to both standard streams. *)

InitContext ==
    /\ agents = [n \in {"a"} |-> [schedule |-> None, retries |-> 0]]
    /\ runs = <<>>
    /\ agent_state = [a \in AgentNames |-> <<>>]
    /\ clock = 0
    /\ stdout_depth = 0
    /\ original = <<>>
    /\ local_buf = [w \in Workers |-> None]
    /\ frame = [w \in Workers |-> IdleFrame]
    /\ proxy = [w \in Workers |-> NewProxy]
    /\ ghost = [w \in Workers |-> NoGhost]
    /\ conn = [w \in Workers |-> IdleConn]
    /\ InitOuter

NextContext ==
    \/ /\ clock + 2 <= MaxClock
       /\ \E r \in 0..MaxRetries : InstallCheck("w1", "a", r)
    \/ InstallSet("w1")
    \/ \E id \in RunIds : Begin("w1", id)
    \/ CallFn("w1")
    \/ ReadHistory("w1")
    \/ StateGet("w1")
    \/ \E e \in StorageFaults : StateGetFault("w1", e)
    \/ FnWrite("w1")
    \/ FnWriteErr("w1")
    \/ FnReturn("w1", PyNone)
    \/ FinallyFlushDelete("w1")
    \/ FlushSet("w1")
    \/ UpdateRun("w1")

SpecContext == InitContext /\ [][NextContext]_vars

----------------------------------------------------------------------------
(* store.py, statement by statement: two threads, each on its own
   connection, call set_state, set_state_bulk and delete_state_keys for
   one agent and read its state with get_state.  A connection's writes stay
   in its transaction until the commit; SQLite admits one write transaction
   at a time, a second writer waits for the first to finish. *)

StoreKeys == {"k", "j"}

KeySeqs ==
    {<<k>> : k \in StoreKeys}
        \cup {s \in {<<k1, k2>> : k1 \in StoreKeys, k2 \in StoreKeys} :
                 s[1] # s[2]}

(* the entries of a call: the items of `data`, in iteration order *)
UpsertItems ==
    UNION {{[i \in 1..Len(ks) |-> [key |-> ks[i], value |-> vs[i]]] :
               vs \in [1..Len(ks) -> StateValues]} : ks \in KeySeqs}

DeleteItems ==
    {[i \in 1..Len(ks) |-> [key |-> ks[i], value |-> PyNone]] :
        ks \in KeySeqs}

DataOf(items) ==
    [k \in {items[i].key : i \in 1..Len(items)} |->
        items[CHOOSE i \in 1..Len(items) : items[i].key = k].value]

(* INSERT ... ON CONFLICT(agent, key) DO UPDATE SET value = excluded.value *)
upsert(view, agent_name, key, value) ==
    [view EXCEPT ![agent_name] = MapSet(@, key, json_dumps(value))]

(* DELETE FROM agent_state WHERE agent=? AND key=? *)
delete(view, agent_name, key) ==
    [view EXCEPT ![agent_name] = MapDel(@, key)]

(* the connection is in autocommit mode: every statement is committed as it
   is executed *)
execute_visible_autocommit(table, view) == view

(* what other connections see after this connection executed a statement
   inside its transaction: the committed table, unchanged *)
execute_visible(table, view) == table

NoCall(w) == conn[w].pc \in {"idle", "done", "raised"}

(* a thread calls a mutating method of the store *)
StoreCall(w, op, agent_name, items) ==
    /\ NoCall(w)
    /\ conn' = [conn EXCEPT ![w] =
          [IdleConn EXCEPT !.pc = "exec", !.op = op, !.agent = agent_name,
                           !.items = items, !.todo = items]]
    /\ UNCHANGED outer_vars
    /\ UNCHANGED <<agents, runs, agent_state, clock, stdout_depth, original,
                   local_buf, frame, proxy, ghost>>

(* the next statement of the call: its parameters are evaluated first
   (json.dumps may raise TypeError), then conn.execute opens the
   transaction if none is open and writes into it.  A TypeError inside
   `with self.conn` (set_state_bulk) rolls the transaction back; in
   set_state it is raised before anything was executed. *)
Execute(w) ==
    /\ conn[w].pc = "exec"
    /\ conn[w].todo # <<>>
    /\ LET c == conn[w]
           item == Head(c.todo)
           view == IF c.txn = None THEN agent_state ELSE c.txn[1]
       IN IF c.op # "delete_state_keys" /\ ~Serializable(item.value)
          THEN /\ conn' = [conn EXCEPT ![w] =
                     [IdleConn EXCEPT !.pc = "raised",
                                      !.exc = Some(TypeError)]]
               /\ UNCHANGED agent_state
          ELSE /\ \A v \in Workers \ {w} : conn[v].txn = None
               /\ LET written == IF c.op = "delete_state_keys"
                                 THEN delete(view, c.agent, item.key)
                                 ELSE upsert(view, c.agent, item.key,
                                             item.value)
                  IN /\ conn' = [conn EXCEPT ![w] =
                           [c EXCEPT !.todo = Tail(c.todo),
                                     !.txn = Some(written),
                                     !.before = IF c.txn = None
                                                THEN Some(agent_state)
                                                ELSE c.before]]
                     /\ agent_state' = execute_visible(agent_state, written)
    /\ UNCHANGED outer_vars
    /\ UNCHANGED <<agents, runs, clock, stdout_depth, original, local_buf,
                   frame, proxy, ghost>>

(* conn.commit(), or leaving `with self.conn` without an exception *)
Commit(w) ==
    /\ conn[w].pc = "exec"
    /\ conn[w].todo = <<>>
    /\ agent_state' = IF conn[w].txn = None THEN agent_state
                      ELSE conn[w].txn[1]
    /\ conn' = [conn EXCEPT ![w] = [IdleConn EXCEPT !.pc = "done"]]
    /\ UNCHANGED outer_vars
    /\ UNCHANGED <<agents, runs, clock, stdout_depth, original, local_buf,
                   frame, proxy, ghost>>

(* a thread that is not inside a call reads the agent's state *)
Read(w, agent_name) ==
    /\ NoCall(w)
    /\ conn' = [conn EXCEPT ![w].seen = Some(get_state(agent_name))]
    /\ UNCHANGED outer_vars
    /\ UNCHANGED <<agents, runs, agent_state, clock, stdout_depth, original,
                   local_buf, frame, proxy, ghost>>

InitStore ==
    /\ agents = [n \in {"a"} |-> [schedule |-> None, retries |-> 0]]
    /\ runs = <<>>
    /\ agent_state = [a \in AgentNames |-> <<>>]
    /\ clock = 0
    /\ stdout_depth = 0
    /\ original = <<>>
    /\ local_buf = [w \in Workers |-> None]
    /\ frame = [w \in Workers |-> IdleFrame]
    /\ proxy = [w \in Workers |-> NewProxy]
    /\ ghost = [w \in Workers |-> NoGhost]
    /\ conn = [w \in Workers |-> IdleConn]
    /\ InitOuter

NextStore ==
    \E w \in Workers :
        \/ \E items \in {s \in UpsertItems : Len(s) = 1} :
              StoreCall(w, "set_state", "a", items)
        \/ \E items \in UpsertItems :
              StoreCall(w, "set_state_bulk", "a", items)
        \/ \E items \in DeleteItems :
              StoreCall(w, "delete_state_keys", "a", items)
        \/ Execute(w)
        \/ Commit(w)
        \/ Read(w, "a")

SpecStore == InitStore /\ [][NextStore]_vars

----------------------------------------------------------------------------
(* registry.py: the module-level registry and its @agent decorator.  A
   decorated function is its __name__ and its identity (which def it is). *)

Fns == {[name |-> "a", def |-> 1], [name |-> "a", def |-> 2],
        [name |-> "b", def |-> 1]}
NameArgs == {None, Some(""), Some("a"), Some("b")}
Schedules == {None, Some("every 1h")}

(* agent.py: the Agent dataclass *)
Agent(name, fn, schedule, retries) ==
    [name |-> name, fn |-> fn, schedule |-> schedule, retries |-> retries]

(* name or fn.__name__ *)
agent_name_of(name, fn) ==
    IF name # None /\ name[1] # "" THEN name[1] ELSE fn.name

(* a name already registered keeps its first agent *)
agent_keep_first(reg, schedule, name, retries, fn) ==
    LET agent_name == agent_name_of(name, fn)
    IN IF agent_name \in DOMAIN reg THEN reg
       ELSE MapSet(reg, agent_name, Agent(agent_name, fn, schedule, retries))

(* @agent(schedule, name, retries) applied to fn: the registry afterwards
   (the duplicate_agent_name warning is a log line only) *)
agent(reg, schedule, name, retries, fn) ==
    LET agent_name == agent_name_of(name, fn)
    IN MapSet(reg, agent_name, Agent(agent_name, fn, schedule, retries))

clear_registry == <<>>

Register(schedule, name, retries, fn) ==
    /\ registry' = agent(registry, schedule, name, retries, fn)
    /\ call' = [op |-> "agent",
                args |-> [schedule |-> schedule, name |-> name,
                          retries |-> retries, fn |-> fn],
                exc |-> None,
                \* log.warning("duplicate_agent_name", replacing=...)
                log |-> IF agent_name_of(name, fn) \in DOMAIN registry
                        THEN Some(registry[agent_name_of(name, fn)].fn)
                        ELSE None]
    /\ UNCHANGED <<engine_vars, app, remote, discovery>>

ClearRegistry ==
    /\ registry' = clear_registry
    /\ call' = [NoOuterCall EXCEPT !.op = "clear_registry"]
    /\ UNCHANGED <<engine_vars, app, remote, discovery>>

NextRegistry ==
    \/ \E schedule \in Schedules, name \in NameArgs, retries \in 0..MaxRetries,
          fn \in Fns : Register(schedule, name, retries, fn)
    \/ ClearRegistry

SpecRegistry == Init /\ [][NextRegistry]_vars

----------------------------------------------------------------------------
(* Store.sync_agent called any number of times, for any name, schedule
   string and retries. *)

ScheduleStrs == {None, Some("every 1h"), Some("every 2h")}

SyncAgentCall(name, schedule_str, retries) ==
    /\ agents' = sync_agent(name, schedule_str, retries)
    /\ call' = [NoOuterCall EXCEPT
                  !.op = "sync_agent",
                  !.args = [name |-> name, schedule_str |-> schedule_str,
                            retries |-> retries]]
    /\ UNCHANGED <<runs, agent_state, clock, stdout_depth, original,
                   local_buf, frame, proxy, ghost, conn>>
    /\ UNCHANGED <<registry, app, remote, discovery>>

NextSync ==
    \E name \in AgentNames, schedule_str \in ScheduleStrs,
       retries \in 0..MaxRetries : SyncAgentCall(name, schedule_str, retries)

SpecSync == Init /\ [][NextSync]_vars

----------------------------------------------------------------------------
(* app.py: a Watchd instance, its agent decorator and run(agent_name).  The
   run executes on worker "w1"; its callable returns None. *)

RunNames == AgentNames \cup {"not_real"}

KeyError(agent_name) ==
    [type |-> "KeyError", msg |-> "Agent '" \o agent_name \o "' not found",
     truthy |-> TRUE]

(* runner.install_capture: standard output is wrapped once per process, and
   wrapping again is a no-op *)
install_capture == IF stdout_depth = 0 THEN 1 ELSE stdout_depth

(* runner.uninstall_capture: the wrapper is taken off again, or left in place *)
uninstall_capture == {0, stdout_depth}

(* Watchd._sync_agents: sync_agent for every registered agent *)
Watchd_sync_agents(registered) ==
    [n \in DOMAIN agents \cup DOMAIN registered |->
        IF n \in DOMAIN registered
        THEN [schedule |-> registered[n].schedule,
              retries |-> registered[n].retries]
        ELSE agents[n]]

(* a name that is not registered gets the first registered agent *)
Watchd_agents_get_default(registered, agent_name) ==
    IF agent_name \in DOMAIN registered THEN Some(registered[agent_name])
    ELSE IF registered = <<>> THEN None
    ELSE Some(registered[CHOOSE n \in DOMAIN registered : TRUE])

(* self.agents.get(agent_name) *)
Watchd_agents_get(registered, agent_name) ==
    IF agent_name \in DOMAIN registered THEN Some(registered[agent_name])
    ELSE None

(* Watchd.agent(schedule, name, retries) applied to fn *)
WatchdAgent(schedule, name, retries, fn) ==
    /\ app.pc # "execute"
    /\ app' = [app EXCEPT !.agents = agent(@, schedule, name, retries, fn)]
    /\ UNCHANGED <<engine_vars, registry, remote, discovery, call>>

(* Watchd.run, lines 74-77: install_capture, store.init, _sync_agents *)
WatchdRun(agent_name) ==
    /\ app.pc # "execute"
    /\ clock + 2 <= MaxClock
    /\ stdout_depth' = install_capture
    /\ agents' = Watchd_sync_agents(app.agents)
    /\ app' = [app EXCEPT !.pc = "execute", !.name = agent_name,
                          !.exc = None]
    /\ frame' = [frame EXCEPT !["w1"] = IdleFrame]
    /\ call' = [NoOuterCall EXCEPT !.op = "run",
                                   !.args = [agent_name |-> agent_name]]
    /\ UNCHANGED <<runs, agent_state, clock, original, local_buf, proxy,
                   ghost, conn, registry, remote, discovery>>

(* Watchd._execute, lines 83-85, and the finally of run: no such agent *)
WatchdExecuteUnknown ==
    /\ app.pc = "execute"
    /\ Watchd_agents_get(app.agents, app.name) = None
    /\ app' = [app EXCEPT !.pc = "raised", !.exc = Some(KeyError(app.name))]
    /\ stdout_depth' \in uninstall_capture
    /\ UNCHANGED <<agents, runs, agent_state, clock, original, local_buf,
                   frame, proxy, ghost, conn, registry, remote, discovery,
                   call>>

(* Watchd._execute, line 86: execute_agent(agent, self.store) *)
WatchdExecute ==
    /\ app.pc = "execute"
    /\ frame["w1"].pc = "idle"
    /\ Watchd_agents_get(app.agents, app.name) # None
    /\ LET found == Watchd_agents_get(app.agents, app.name)[1]
       IN InstallCheck("w1", found.name, found.retries)

(* Watchd.run, lines 78-80: execute_agent returned or raised *)
WatchdRunEnd ==
    /\ app.pc = "execute"
    /\ frame["w1"].pc \in {"returned", "raised"}
    /\ app' = [app EXCEPT !.pc = frame["w1"].pc, !.exc = frame["w1"].exc]
    /\ stdout_depth' \in uninstall_capture
    /\ UNCHANGED <<agents, runs, agent_state, clock, original, local_buf,
                   frame, proxy, ghost, conn, registry, remote, discovery,
                   call>>

NextApp ==
    \/ \E schedule \in Schedules, name \in NameArgs, fn \in Fns :
          WatchdAgent(schedule, name, 0, fn)
    \/ \E agent_name \in RunNames : WatchdRun(agent_name)
    \/ WatchdExecuteUnknown
    \/ WatchdExecute
    \/ WatchdRunEnd
    \/ \E id \in RunIds : Begin("w1", id)
    \/ CallFn("w1")
    \/ FnReturn("w1", PyNone)
    \/ FinallyFlushDelete("w1")
    \/ UpdateRun("w1")

SpecApp == Init /\ [][NextApp]_vars

----------------------------------------------------------------------------
(* deploy.py: deploy(config), one remote or local command per step.  A
   release is named by its timestamp; 0 is no release.  The outcome of each
   command (exit status zero or not) is the environment's. *)

MaxDeploys == 2

(* config.db as a path: absolute or not, and its components *)
DbPaths ==
    {[abs |-> FALSE, parts |-> <<"watchd.db">>],
     [abs |-> FALSE, parts |-> <<"data", "watchd.db">>],
     [abs |-> TRUE, parts |-> <<"absolute", "path", "watchd.db">>],
     [abs |-> FALSE, parts |-> <<"..", "escape", "watchd.db">>]}

(* deploy.keep_releases *)
KeepValues == {1, 2}

(* Path(config.db).name *)
db_name(db) == db.parts[Len(db.parts)]

(* the symlink is swapped before the dependencies are installed *)
DeploySteps_swap_first ==
    <<"validate_local", "resolve_config", "preflight", "mkdir", "rsync",
      "env", "swap", "uv_sync", "db_link", "realpath", "which_uv",
      "mkdir_unit", "write_unit", "restart", "status", "prune">>

(* the commands of deploy, in the order of lines 136-209 *)
DeploySteps ==
    <<"validate_local", "resolve_config", "preflight", "mkdir", "rsync",
      "env", "uv_sync", "db_link", "swap", "realpath", "which_uv",
      "mkdir_unit", "write_unit", "restart", "status", "prune">>

StepIndex(step) == CHOOSE i \in 1..Len(DeploySteps) : DeploySteps[i] = step

StepAfter(step) ==
    IF StepIndex(step) = Len(DeploySteps) THEN "done"
    ELSE DeploySteps[StepIndex(step) + 1]

(* sys.exit(1) of _validate_local, _resolve_deploy_config and a failed
   preflight; the exception of _ssh, _rsync and subprocess.run(check=True);
   the status check and the pruning run with check=False *)
SystemExit == [type |-> "SystemExit", msg |-> "1", truthy |-> TRUE]
RuntimeError == [type |-> "RuntimeError", msg |-> "ssh command failed",
                 truthy |-> TRUE]

FailureOf(step) ==
    IF step \in {"validate_local", "resolve_config", "preflight"}
    THEN Some(SystemExit)
    ELSE IF step \in {"status", "prune"} THEN None
    ELSE Some(RuntimeError)

(* _prune_releases: ls -1t, the newest `keep` directories stay *)
prune_releases(releases, keep) ==
    {r \in releases : Cardinality({q \in releases : q > r}) < keep}

(* what a command that exits with status zero leaves on the host *)
HostAfter(r, step) ==
    CASE step = "preflight" -> [r EXCEPT !.ts = r.now + 1, !.now = r.now + 1]
      [] step = "mkdir" -> [r EXCEPT !.releases = @ \cup {r.ts}]
      [] step = "uv_sync" -> [r EXCEPT !.synced = @ \cup {r.ts}]
      [] step = "db_link" ->
            [r EXCEPT !.db_links = MapSet(@, r.ts, db_name(r.config[1].db))]
      [] step = "swap" -> [r EXCEPT !.current = r.ts]
      [] step = "write_unit" -> [r EXCEPT !.unit = r.current]
      [] step = "restart" -> [r EXCEPT !.service = r.unit]
      [] step = "prune" ->
            [r EXCEPT !.releases = prune_releases(@, r.config[1].keep_releases)]
      [] OTHER -> r

(* deploy(config) is called *)
DeployStart(db, env_exists, keep) ==
    /\ remote.pc \in {"idle", "done", "raised"}
    /\ remote.now < MaxDeploys
    /\ remote' = [remote EXCEPT
                     !.pc = DeploySteps[1],
                     !.config = Some([db |-> db, env_exists |-> env_exists,
                                      keep_releases |-> keep]),
                     !.ts = 0, !.log = <<>>, !.exc = None,
                     !.prev = remote.current]
    /\ call' = [NoOuterCall EXCEPT !.op = "deploy"]
    /\ UNCHANGED <<engine_vars, registry, app, discovery>>

(* the next command of deploy runs and exits with status zero (ok) or not;
   the .env transfer is skipped when there is no .env file *)
DeployStep(ok) ==
    /\ remote.pc \in {DeploySteps[i] : i \in 1..Len(DeploySteps)}
    /\ LET step == remote.pc
       IN IF step = "env" /\ ~remote.config[1].env_exists
          THEN /\ ok
               /\ remote' = [remote EXCEPT !.pc = StepAfter(step)]
          ELSE LET logged == [remote EXCEPT
                                 !.log = Append(@, [step |-> step, ok |-> ok])]
               IN IF ok
                  THEN remote' = [HostAfter(logged, step) EXCEPT
                                     !.pc = StepAfter(step)]
                  ELSE IF FailureOf(step) = None
                  THEN remote' = [logged EXCEPT !.pc = StepAfter(step)]
                  ELSE remote' = [logged EXCEPT !.pc = "raised",
                                                !.exc = FailureOf(step)]
    /\ UNCHANGED <<engine_vars, registry, app, discovery, call>>

NextDeploy ==
    \/ \E db \in DbPaths, env_exists \in BOOLEAN, keep \in KeepValues :
          DeployStart(db, env_exists, keep)
    \/ \E ok \in BOOLEAN : DeployStep(ok)

SpecDeploy == Init /\ [][NextDeploy]_vars

----------------------------------------------------------------------------
(* discovery.py: discover_agents(agents_dir).  A directory gives each of
   its possible paths a content; the paths are listed in the order the two
   sorted globs visit them: the .py files, then the agent.py of the
   subdirectories. *)

Paths == <<"_h.py", "m1.py", "m2.py", "pkg/agent.py">>

(* py_file.name.startswith("_") / agent_file.parent.name.startswith("_") *)
Underscore(path) == path \in {"_h.py"}

(* what executing a file does: the agent it registers with @agent(), if
   any, and how the execution ends.  A syntax error ends it before anything
   runs; an import error may come after a registration; "exits" is a file
   that ends in a BaseException (sys.exit() at module level). *)
Contents ==
    {[agent |-> None, ends |-> "absent"],
     [agent |-> Some("a"), ends |-> "ok"],
     [agent |-> Some("b"), ends |-> "ok"],
     [agent |-> None, ends |-> "syntax_error"],
     [agent |-> None, ends |-> "import_error"],
     [agent |-> Some("a"), ends |-> "import_error"],
     [agent |-> None, ends |-> "exits"]}

(* an underscore file is never executed: it is absent or a helper that
   would register an agent if it were *)
Directories ==
    {d \in [1..Len(Paths) -> Contents] :
        \A i \in 1..Len(Paths) :
           Underscore(Paths[i]) =>
              d[i] \in {[agent |-> None, ends |-> "absent"],
                        [agent |-> Some("b"), ends |-> "ok"]}}

(* except ImportError: a syntax error is not caught *)
Caught_import_only(ends) == ends = "import_error"

(* except Exception *)
Caught(ends) == ends \in {"syntax_error", "import_error"}

(* the function the file at position i defines under the name n *)
FnOf(i, n) == [name |-> n, def |-> i]

(* spec.loader.exec_module(module): the registry afterwards *)
exec_module(reg, i, content) ==
    IF content.agent = None THEN reg
    ELSE agent(reg, None, None, 0, FnOf(i, content.agent[1]))

(* lines 19-22: clear_registry(); a path that is no directory returns {} *)
DiscoverStart(dir) ==
    /\ discovery.pc \in {"idle", "done", "raised"}
    /\ registry' = clear_registry
    /\ discovery' = IF dir = None
                     THEN [IdleDiscovery EXCEPT !.pc = "done",
                                                !.result = Some(<<>>)]
                     ELSE [IdleDiscovery EXCEPT !.pc = "loop", !.dir = dir,
                                                !.i = 1]
    /\ call' = [NoOuterCall EXCEPT !.op = "discover_agents"]
    /\ UNCHANGED <<engine_vars, app, remote>>

(* lines 31-42 and 44-55: the next path of the two loops *)
LoadFile ==
    /\ discovery.pc = "loop"
    /\ discovery.i <= Len(Paths)
    /\ LET i == discovery.i
           content == discovery.dir[1][i]
       IN IF content.ends = "absent" \/ Underscore(Paths[i])
          THEN /\ discovery' = [discovery EXCEPT !.i = i + 1]
               /\ UNCHANGED registry
          ELSE /\ registry' = exec_module(registry, i, content)
               /\ discovery' =
                     IF content.ends = "ok"
                     THEN [discovery EXCEPT !.i = i + 1]
                     ELSE IF Caught(content.ends)
                     THEN [discovery EXCEPT !.i = i + 1,
                                            !.failed = @ \cup {Paths[i]}]
                     ELSE [discovery EXCEPT
                              !.pc = "raised",
                              !.exc = Some(SystemExit)]
    /\ UNCHANGED <<engine_vars, app, remote, call>>

(* line 57: return dict(get_registry()) *)
DiscoverReturn ==
    /\ discovery.pc = "loop"
    /\ discovery.i > Len(Paths)
    /\ discovery' = [discovery EXCEPT !.pc = "done",
                                      !.result = Some(registry)]
    /\ UNCHANGED <<engine_vars, registry, app, remote, call>>

NextDiscovery ==
    \/ \E dir \in {None} \cup {Some(d) : d \in Directories} :
          DiscoverStart(dir)
    \/ LoadFile
    \/ DiscoverReturn

SpecDiscovery == Init /\ [][NextDiscovery]_vars

----------------------------------------------------------------------------
(* agent.py: one StateProxy of agent "a" used as the mapping it is: items
   are assigned and deleted, the proxy is flushed (its two storage calls
   are two steps) and replaced by a new one.  `call` is the operation last
   made, and for a flush the storage calls it has made so far. *)

ProxyValues == {PyInt(1), PyInt(2), PyTuple(1), PyObject}

(* what the state table holds for the agent before the proxy is made *)
StoredStates ==
    {[k \in ks |-> json_dumps(PyInt(1))] : ks \in SUBSET StoreKeys}

(* del self._data[key] on a key the data does not hold *)
MissingKey(key) == [type |-> "KeyError", msg |-> key, truthy |-> TRUE]

InFlush == call.op = "flush_deletes"

(* lines 66-68 without the clear(): the deletions stay pending *)
flush_deletes_keep_pending(p) == p

(* lines 66-68: the proxy after the deletions are applied *)
flush_deletes(p) == [p EXCEPT !.deleted_keys = {}]

(* lines 69-71 leave the dirty keys pending *)
flush_upserts_keep_pending(p) == p

(* lines 69-71: the proxy after the upserts are applied *)
flush_upserts(p) == [p EXCEPT !.dirty = <<>>]

(* StateProxy(store, "a") *)
ProxyNew ==
    /\ ~InFlush
    /\ proxy' = [proxy EXCEPT !["w1"] = NewProxy]
    /\ call' = [NoOuterCall EXCEPT !.op = "StateProxy"]
    /\ UNCHANGED <<agents, runs, agent_state, clock, stdout_depth, original,
                   local_buf, frame, ghost, conn>>
    /\ UNCHANGED <<registry, app, remote, discovery>>

(* state[key]: the load on the first access, then the value or KeyError *)
ProxyGetitem(key) ==
    /\ ~InFlush
    /\ LET r == StateProxy_getitem(proxy["w1"], "a", key)
       IN call' = [NoOuterCall EXCEPT
                      !.op = "getitem",
                      !.args = [key |-> key, value |-> r],
                      !.exc = IF r = None THEN Some(MissingKey(key)) ELSE None]
    /\ proxy' = [proxy EXCEPT !["w1"] = StateProxy_load(@, "a")]
    /\ UNCHANGED <<agents, runs, agent_state, clock, stdout_depth, original,
                   local_buf, frame, ghost, conn>>
    /\ UNCHANGED <<registry, app, remote, discovery>>

(* state[key] = value *)
ProxySetitem(key, value) ==
    /\ ~InFlush
    /\ proxy' = [proxy EXCEPT !["w1"] = StateProxy_setitem(@, "a", key, value)]
    /\ agent_state' = StorageAfterSetitem("a", key, value)
    /\ call' = [NoOuterCall EXCEPT !.op = "setitem",
                                   !.args = [key |-> key, value |-> value]]
    /\ UNCHANGED <<agents, runs, clock, stdout_depth, original, local_buf,
                   frame, ghost, conn>>
    /\ UNCHANGED <<registry, app, remote, discovery>>

(* del state[key]: KeyError, after the load, when the data has no such key *)
ProxyDelitem(key) ==
    /\ ~InFlush
    /\ LET q == StateProxy_load(proxy["w1"], "a")
       IN IF key \in DOMAIN q.data[1]
          THEN /\ proxy' = [proxy EXCEPT !["w1"] = StateProxy_delitem(@, "a", key)]
               /\ call' = [NoOuterCall EXCEPT !.op = "delitem",
                                              !.args = [key |-> key]]
          ELSE /\ proxy' = [proxy EXCEPT !["w1"] = q]
               /\ call' = [NoOuterCall EXCEPT !.op = "delitem",
                                              !.args = [key |-> key],
                                              !.exc = Some(MissingKey(key))]
    /\ UNCHANGED <<agents, runs, agent_state, clock, stdout_depth, original,
                   local_buf, frame, ghost, conn>>
    /\ UNCHANGED <<registry, app, remote, discovery>>

(* flush, lines 64-68: nothing when the data was never loaded; otherwise
   the pending deletions, when there are any.  `repeat` says that the
   operation before this flush was a flush that returned. *)
ProxyFlushDeletes ==
    /\ ~InFlush
    /\ LET p == proxy["w1"]
           repeat == call.op = "flush" /\ call.exc = None
       IN IF p.data = None
          THEN /\ call' = [NoOuterCall EXCEPT
                              !.op = "flush",
                              !.args = [repeat |-> repeat, calls |-> <<>>,
                                        deleted |-> {}]]
               /\ UNCHANGED <<agent_state, proxy>>
          ELSE /\ agent_state' = IF p.deleted_keys # {}
                                 THEN delete_state_keys("a", p.deleted_keys)
                                 ELSE agent_state
               /\ proxy' = [proxy EXCEPT !["w1"] = flush_deletes(p)]
               /\ call' = [NoOuterCall EXCEPT
                              !.op = "flush_deletes",
                              !.args = [repeat |-> repeat,
                                        calls |-> IF p.deleted_keys # {}
                                                  THEN <<"delete_state_keys">>
                                                  ELSE <<>>,
                                        deleted |-> p.deleted_keys]]
    /\ UNCHANGED <<agents, runs, clock, stdout_depth, original, local_buf,
                   frame, ghost, conn>>
    /\ UNCHANGED <<registry, app, remote, discovery>>

(* flush, lines 69-71: the pending upserts, when there are any; json.dumps
   of a value JSON cannot hold raises TypeError out of set_state_bulk *)
ProxyFlushUpserts ==
    /\ InFlush
    /\ LET p == proxy["w1"]
       IN IF \A k \in DOMAIN p.dirty : Serializable(p.dirty[k])
          THEN /\ agent_state' = IF DOMAIN p.dirty # {}
                                 THEN set_state_bulk("a", p.dirty)
                                 ELSE agent_state
               /\ proxy' = [proxy EXCEPT !["w1"] = flush_upserts(p)]
               /\ call' = [call EXCEPT
                              !.op = "flush",
                              !.args.calls = IF DOMAIN p.dirty # {}
                                             THEN Append(@, "set_state_bulk")
                                             ELSE @]
          ELSE /\ call' = [call EXCEPT
                              !.op = "flush",
                              !.args.calls = Append(@, "set_state_bulk"),
                              !.exc = Some(TypeError)]
               /\ agent_state' = set_state_bulk_failed("a", p.dirty)
               /\ UNCHANGED proxy
    /\ UNCHANGED <<agents, runs, clock, stdout_depth, original, local_buf,
                   frame, ghost, conn>>
    /\ UNCHANGED <<registry, app, remote, discovery>>

InitProxy ==
    /\ agents = [n \in {"a"} |-> [schedule |-> None, retries |-> 0]]
    /\ runs = <<>>
    /\ agent_state \in {[a \in AgentNames |-> IF a = "a" THEN st ELSE <<>>] :
                            st \in StoredStates}
    /\ clock = 0
    /\ stdout_depth = 0
    /\ original = <<>>
    /\ local_buf = [w \in Workers |-> None]
    /\ frame = [w \in Workers |-> IdleFrame]
    /\ proxy = [w \in Workers |-> NewProxy]
    /\ ghost = [w \in Workers |-> NoGhost]
    /\ conn = [w \in Workers |-> IdleConn]
    /\ InitOuter

NextProxy ==
    \/ ProxyNew
    \/ \E key \in StoreKeys, value \in ProxyValues : ProxySetitem(key, value)
    \/ \E key \in StoreKeys : ProxyGetitem(key)
    \/ \E key \in StoreKeys : ProxyDelitem(key)
    \/ ProxyFlushDeletes
    \/ ProxyFlushUpserts

SpecProxy == InitProxy /\ [][NextProxy]_vars

----------------------------------------------------------------------------
(* Two workers running agent "a" at the same time over a state table that
   earlier runs have filled: each callable may read the state, and assigns
   or deletes only its own key, "k" for w1 and "j" for w2. *)

OwnKey(w) == IF w = "w1" THEN "k" ELSE "j"

InitDisjoint ==
    /\ agents = [n \in {"a"} |-> [schedule |-> None, retries |-> 0]]
    /\ runs = <<>>
    /\ agent_state \in {[a \in AgentNames |-> IF a = "a" THEN st ELSE <<>>] :
                            st \in StoredStates}
    /\ clock = 0
    /\ stdout_depth = 0
    /\ original = <<>>
    /\ local_buf = [w \in Workers |-> None]
    /\ frame = [w \in Workers |-> IdleFrame]
    /\ proxy = [w \in Workers |-> NewProxy]
    /\ ghost = [w \in Workers |-> NoGhost]
    /\ conn = [w \in Workers |-> IdleConn]
    /\ InitOuter

NextDisjoint ==
    \E w \in Workers :
        \/ /\ clock + 2 <= MaxClock
           /\ InstallCheck(w, "a", 0)
        \/ InstallSet(w)
        \/ \E id \in RunIds : Begin(w, id)
        \/ CallFn(w)
        \/ StateGet(w)
        \/ StateSet(w, OwnKey(w), PyInt(2))
        \/ StateDel(w, OwnKey(w))
        \/ FnReturn(w, PyNone)
        \/ FinallyFlushDelete(w)
        \/ FlushSet(w)
        \/ UpdateRun(w)

SpecDisjoint == InitDisjoint /\ [][NextDisjoint]_vars

----------------------------------------------------------------------------
(* The agents table filled name by name while one worker runs agents, synced
   or not, and state is also written directly through Store.set_state. *)

(* store.set_state(name, key, value), lines 145-153 *)
SetState(name, key, value) ==
    /\ IF set_state_ok(name)
       THEN /\ agent_state' = set_state_bulk(name, [k \in {key} |-> value])
            /\ call' = [NoOuterCall EXCEPT
                           !.op = "set_state",
                           !.args = [agent |-> name, key |-> key]]
       ELSE /\ agent_state' = agent_state
            /\ call' = [NoOuterCall EXCEPT
                           !.op = "set_state",
                           !.args = [agent |-> name, key |-> key],
                           !.exc = Some(IntegrityError)]
    /\ UNCHANGED <<agents, runs, clock, stdout_depth, original, local_buf,
                   frame, proxy, ghost, conn>>
    /\ UNCHANGED <<registry, app, remote, discovery>>

NextIntegrity ==
    \/ \E a \in AgentNames : SyncAgent(a)
    \/ /\ clock + 2 <= MaxClock
       /\ \E a \in AgentNames : InstallCheck("w1", a, 0)
    \/ InstallSet("w1")
    \/ \E id \in RunIds : Begin("w1", id)
    \/ CallFn("w1")
    \/ FnReturn("w1", PyNone)
    \/ StateSet("w1", "k", PyInt(1))
    \/ FinallyFlushDelete("w1")
    \/ FlushSet("w1")
    \/ UpdateRun("w1")
    \/ \E a \in AgentNames : SetState(a, "j", PyInt(2))

SpecIntegrity == Init /\ [][NextIntegrity]_vars

----------------------------------------------------------------------------
(* Two workers, each running its own agent, with every way out of
   execute_agent: the return, an interruption of the callable, a value the
   flush cannot serialize, a row update that fails, and a run id that is
   already taken at save_run; each worker also writes between its calls. *)

NextExit ==
    \E w \in Workers :
        \/ /\ clock + 2 <= MaxClock
           /\ InstallCheck(w, AgentOf(w), 0)
        \/ InstallSet(w)
        \/ \E id \in RunIds : Begin(w, id)
        \/ CallFn(w)
        \/ FnReturn(w, PyNone)
        \/ \E e \in Interrupts : FnInterrupt(w, e)
        \/ StateSet(w, "k", PyObject)
        \/ FnWrite(w)
        \/ IdleWrite(w)
        \/ FinallyFlushDelete(w)
        \/ FlushSet(w)
        \/ UpdateRun(w)
        \/ \E e \in StorageFaults : UpdateRunFault(w, e)

SpecExit == InitCapture /\ [][NextExit]_vars

----------------------------------------------------------------------------
(* One worker running the synced agent "a": the callable prints, and returns
   a value or raises, with or without a retry left. *)

NextReadBack ==
    \/ /\ clock + 2 <= MaxClock
       /\ \E r \in 0..1 : InstallCheck("w1", "a", r)
    \/ InstallSet("w1")
    \/ \E id \in RunIds : Begin("w1", id)
    \/ CallFn("w1")
    \/ \E v \in ReturnValues : FnReturn("w1", v)
    \/ \E e \in Errors : FnRaise("w1", e)
    \/ FnWrite("w1")
    \/ FinallyFlushDelete("w1")
    \/ UpdateRun("w1")

SpecReadBack == InitCounter /\ [][NextReadBack]_vars

----------------------------------------------------------------------------
(* Properties of execute_agent. *)

(* the call has passed save_run: its row is in the table *)
Persisted(w) == frame[w].run # None
(* the call is inside the attempt loop *)
InLoop(w) == frame[w].pc \in {"loop", "in_fn"}
(* the call has left the attempt loop *)
PastLoop(w) ==
    frame[w].pc \in {"finally", "flush_set", "update", "returned", "raised"}
    /\ Persisted(w)
(* control has left execute_agent, by return or by exception, after the
   row was persisted *)
Left(w) == frame[w].pc \in {"returned", "raised"} /\ Persisted(w)

StoredRun(w) == get_run(frame[w].run[1].id)

(* C1: whenever the callable has been invoked, and at every point of the
   attempt loop, get_run(run_id) returns the row of this call with
   started_at set; it has status running for as long as attempts go on. *)
C1_RowCommittedBeforeFirstCall ==
    \A w \in Workers :
        (ghost[w].calls > 0 \/ InLoop(w)) =>
            /\ Persisted(w)
            /\ StoredRun(w) # None
            /\ StoredRun(w)[1].id = frame[w].ctx_run_id[1]
            /\ StoredRun(w)[1].agent = frame[w].agent[1].name
            /\ StoredRun(w)[1].started_at # None
            /\ StoredRun(w)[1].started_at = frame[w].run[1].started_at
            /\ (InLoop(w) => StoredRun(w)[1].status = "running")

C1_Witness ==
    \E w \in Workers :
        /\ frame[w].pc = "in_fn"
        /\ ghost[w].calls = 2
        /\ StoredRun(w) # None
        /\ StoredRun(w)[1].status = "running"

(* C2: a call that got past save_run has inserted exactly one row, however
   many attempts it made; every attempt saw the id of that row as
   ctx.run_id; the row is updated at most once, and once the update is done
   the terminal outcome is in that same row. *)
C2_OneRowPerCall ==
    \A w \in Workers :
        /\ ghost[w].inserts <= 1
        /\ ghost[w].updates <= 1
        /\ (~Persisted(w) => ghost[w].inserts = 0 /\ ghost[w].calls = 0)
        /\ Persisted(w) =>
            /\ ghost[w].inserts = 1
            /\ frame[w].run[1].id \in DOMAIN runs
            /\ frame[w].ctx_run_id = Some(frame[w].run[1].id)
            /\ ghost[w].ids \subseteq {frame[w].run[1].id}
            /\ (ghost[w].updates = 1 =>
                    /\ StoredRun(w)[1].status = frame[w].run[1].status
                    /\ StoredRun(w)[1].result = frame[w].run[1].result
                    /\ StoredRun(w)[1].error = frame[w].run[1].error)

C2_Witness ==
    \E w \in Workers :
        /\ frame[w].pc = "returned"
        /\ ghost[w].calls = MaxRetries + 1
        /\ ghost[w].inserts = 1
        /\ Cardinality(DOMAIN runs) = 2
        /\ \A i \in DOMAIN runs : runs[i].status # "running"

(* the result execute_agent records for a returned value *)
ExpectedResult(v) ==
    CASE v = PyNone -> None
      [] v = PyInt(0) -> Some("0")
      [] v = PyText("ok") -> Some("ok")
      [] OTHER -> Some("?")

(* C3: when the callable returned on an invocation after failing on all
   the earlier ones (R of them, R <= retries), it was invoked R + 1 times
   and is not invoked again; the run has status success, the stringified
   return value as result (None for a None return) and no error; and the
   Run the call returns carries the same and is what storage holds. *)
C3_FailRTimesThenSucceed ==
    \A w \in Workers :
        (PastLoop(w) /\ ghost[w].returned # None) =>
            /\ ghost[w].calls = ghost[w].fails + 1
            /\ ghost[w].fails <= frame[w].agent[1].retries
            /\ frame[w].run[1].status = "success"
            /\ frame[w].run[1].result = ExpectedResult(ghost[w].returned[1])
            /\ frame[w].run[1].error = None
            /\ frame[w].last_error = None
            /\ (frame[w].pc = "returned" =>
                    /\ frame[w].ret = frame[w].run
                    /\ StoredRun(w)[1].status = "success"
                    /\ StoredRun(w)[1].result
                          = ExpectedResult(ghost[w].returned[1])
                    /\ StoredRun(w)[1].error = None)

C3_Witness ==
    \E w \in Workers :
        /\ frame[w].pc = "returned"
        /\ frame[w].agent[1].retries = MaxRetries
        /\ ghost[w].fails = MaxRetries
        /\ ghost[w].calls = MaxRetries + 1
        /\ ghost[w].returned = Some(PyInt(0))
        /\ frame[w].ret[1].status = "success"
        /\ frame[w].ret[1].result = Some("0")

(* the callable raised an Exception on every invocation of this call *)
AlwaysFailed(w) ==
    /\ PastLoop(w)
    /\ ghost[w].returned = None
    /\ frame[w].pend = None
    /\ ghost[w].raised # None
    /\ ghost[w].raised[1] \in Errors

(* the last line of the traceback of each exception the callable raises *)
ExpectedError(e) ==
    CASE e.type = "RuntimeError" /\ e.msg = "e1" -> "RuntimeError: e1"
      [] e.type = "ValueError" /\ e.msg = "" -> "ValueError"
      [] e.type = "Empty" /\ e.msg = "e2" -> "Empty: e2"
      [] OTHER -> "?"

(* C4: a callable that raises an Exception on every invocation is invoked
   retries + 1 times and the run has status error, with the error text of
   the exception raised by the last invocation. *)
C4_AlwaysFailingRunIsError ==
    \A w \in Workers :
        AlwaysFailed(w) =>
            /\ ghost[w].calls = frame[w].agent[1].retries + 1
            /\ ghost[w].fails = ghost[w].calls
            /\ frame[w].run[1].status = "error"
            /\ frame[w].run[1].error = Some(ExpectedError(ghost[w].raised[1]))

(* C5: no Exception raised by the callable leaves execute_agent, and a
   call that returns returns a Run in status success or error. *)
C5_RecoverableFailureAbsorbed ==
    \A w \in Workers :
        /\ (frame[w].pc = "raised" /\ frame[w].exc # None =>
                frame[w].exc[1] \notin Errors)
        /\ (frame[w].pc = "returned" =>
                frame[w].ret[1].status \in {"success", "error"})

(* the callable was interrupted by a BaseException in this call *)
Interrupted(w) ==
    /\ PastLoop(w)
    /\ ghost[w].raised # None
    /\ ghost[w].raised[1] \in Interrupts

(* C6: after an interruption there is no further attempt, and when control
   leaves execute_agent the stored row has status error with finished_at
   and duration_ms set and the exception that leaves is the interruption. *)
C6_InterruptionFinalizedThenReraised ==
    \A w \in Workers :
        Interrupted(w) =>
            /\ ghost[w].calls = ghost[w].fails + 1
            /\ frame[w].pc # "returned"
            /\ (frame[w].pc = "raised" =>
                    /\ frame[w].exc = ghost[w].raised
                    /\ StoredRun(w)[1].status = "error"
                    /\ StoredRun(w)[1].finished_at # None
                    /\ StoredRun(w)[1].duration_ms # None)

(* C7: when control has left execute_agent after the row was persisted,
   the stored row is not in status running and has finished_at and
   duration_ms set. *)
C7_FinalizationAlwaysCompletes ==
    \A w \in Workers :
        Left(w) =>
            /\ StoredRun(w)[1].status # "running"
            /\ StoredRun(w)[1].finished_at # None
            /\ StoredRun(w)[1].duration_ms # None

(* C8: the state table changes only in a step of the finalization flush of
   a run of that agent, after its last attempt; no step taken while a
   callable runs changes it. *)
C8_StateVisibleOnlyAtFlush ==
    [][\A a \in AgentNames :
          agent_state'[a] # agent_state[a] =>
              \E w \in Workers :
                  /\ frame[w].agent # None
                  /\ frame[w].agent = frame'[w].agent
                  /\ frame[w].agent[1].name = a
                  /\ frame[w].pc \in {"finally", "flush_set"}
                  /\ frame'[w].pc \in {"flush_set", "update"}
                  /\ ghost'[w].calls = ghost[w].calls]_vars

(* state written in a failed attempt is pending, not stored, while a later
   attempt runs *)
C8_Witness ==
    \E w \in Workers :
        /\ frame[w].pc = "in_fn"
        /\ ghost[w].calls = 2
        /\ proxy[w].data # None
        /\ "k" \in DOMAIN proxy[w].dirty
        /\ "k" \notin DOMAIN agent_state[frame[w].agent[1].name]

(* C13: a stored row's status is one of running, success and error; rows
   are never removed; and a step changes a row's status only from running
   to success or from running to error, so a terminal row keeps its status
   through every later step, later runs included. *)
C13_StatusOnlyLeavesRunning ==
    /\ [](\A id \in DOMAIN runs :
            runs[id].status \in {"running", "success", "error"})
    /\ [][\A id \in DOMAIN runs :
            /\ id \in DOMAIN runs'
            /\ (runs'[id].status # runs[id].status =>
                    /\ runs[id].status = "running"
                    /\ runs'[id].status \in {"success", "error"})]_vars

(* a row that ended in success is still in success after a later run of
   the agent ended in error *)
C13_Witness ==
    \E w \in Workers :
        /\ frame[w].pc = "returned"
        /\ frame[w].ret[1].status = "error"
        /\ \E id \in DOMAIN runs :
              /\ id # frame[w].ret[1].id
              /\ runs[id].status = "success"
              /\ runs[id].started_at[1].iso < frame[w].ret[1].started_at[1]

(* C14: in every stored row, finished_at is null exactly when the status is
   running, and so is duration_ms. *)
C14_FinishedExactlyWhenTerminal ==
    \A id \in DOMAIN runs :
        /\ (runs[id].finished_at = None) <=> (runs[id].status = "running")
        /\ (runs[id].duration_ms = None) <=> (runs[id].status = "running")

(* C15: the runs the callable gets from ctx.history do not include the run
   it is executing in. *)
C15_HistoryExcludesCurrentRun ==
    \A w \in Workers :
        (Persisted(w) /\ ghost[w].hist # None) =>
            \A i \in 1..Len(ghost[w].hist[1]) :
                ghost[w].hist[1][i] # frame[w].ctx_run_id[1]

(* the callable's last invocation so far ended in a storage fault *)
StorageFaulted(w) ==
    /\ Persisted(w)
    /\ ghost[w].raised # None
    /\ ghost[w].raised[1] \in StorageFaults

(* C12: a storage fault hit by the callable's first read of ctx.state is
   not handled as an attempt failure: no further attempt follows it, the
   call does not return a Run, and the exception that leaves execute_agent
   is the fault. *)
C12_StorageFaultPropagates ==
    \A w \in Workers :
        StorageFaulted(w) =>
            /\ frame[w].pc \notin {"loop", "in_fn", "returned"}
            /\ frame[w].last_error # ghost[w].raised
            /\ (frame[w].pc = "raised" => frame[w].exc = ghost[w].raised)

----------------------------------------------------------------------------
(* Properties of the State Proxy. *)

(* the flush of this call has run its deletions *)
DeletionsFlushed(w) ==
    /\ Persisted(w)
    /\ ghost[w].flushed
    /\ proxy[w].data # None

(* C11: while the callable runs, a key that was deleted and not assigned
   again reads as missing (KeyError), whether or not storage still holds
   it; once the flush has run its deletions, a key the proxy no longer
   holds is absent from the agent's state in storage. *)
C11_DeletedKeyMissingThenRemoved ==
    \A w \in Workers : \A k \in Keys :
        LET name == frame[w].agent[1].name
        IN /\ (Persisted(w) /\ ~ghost[w].flushed
                    /\ k \in proxy[w].deleted_keys
                    /\ k \notin DOMAIN proxy[w].dirty) =>
                 StateProxy_getitem(proxy[w], name, k) = None
           /\ (DeletionsFlushed(w)
                    /\ StateProxy_getitem(proxy[w], name, k) = None) =>
                 k \notin DOMAIN agent_state[name]

(* a key an earlier run stored has been deleted in this run and the flush
   has not run yet: storage still holds it, the proxy does not *)
C11_Witness ==
    \E w \in Workers :
        /\ frame[w].pc = "in_fn"
        /\ "k" \in proxy[w].deleted_keys
        /\ "k" \notin DOMAIN proxy[w].dirty
        /\ "k" \in DOMAIN agent_state[frame[w].agent[1].name]
        /\ StateProxy_getitem(proxy[w], frame[w].agent[1].name, "k") = None

(* C16: the proxy of a call holds no loaded data before the callable is
   first invoked; its data is loaded only by a step of the callable that
   accesses ctx.state; and when the finalization finds the data never
   loaded, its flush changes nothing in the state table and the call goes
   straight on to update_run. *)
C16_NoStateAccessUntilFirstUse ==
    /\ [](\A w \in Workers :
            (frame[w].pc \in {"install", "begin", "loop"}
                 /\ ghost[w].calls = 0) => proxy[w].data = None)
    /\ [][\A w \in Workers :
            /\ (proxy[w].data = None /\ proxy'[w].data # None) =>
                    /\ frame[w].pc = "in_fn"
                    /\ frame'[w].pc = "in_fn"
            /\ (frame[w].pc = "finally" /\ frame'[w].pc # "finally"
                     /\ proxy[w].data = None) =>
                    /\ agent_state' = agent_state
                    /\ proxy'[w].data = None
                    /\ frame'[w].pc = "update"]_vars

(* a run whose callable never touched ctx.state has returned, and the state
   an earlier run stored is still there *)
C16_Witness ==
    \E w \in Workers :
        /\ frame[w].pc = "returned"
        /\ ghost[w].calls > 0
        /\ proxy[w].data = None
        /\ "k" \in DOMAIN agent_state[frame[w].agent[1].name]

(* C17: assigning a value JSON cannot hold raises nothing in the callable
   (no attempt ever fails with the serialization TypeError); every assigned
   value, serializable or not, is what a read returns for as long as it is
   pending; and the TypeError that leaves execute_agent is raised by the
   flush of the finalization, with such a value pending. *)
C17_SerializationCheckedAtFlush ==
    \A w \in Workers :
        /\ frame[w].last_error # Some(TypeError)
        /\ ghost[w].raised # Some(TypeError)
        /\ Persisted(w) =>
              \A k \in DOMAIN proxy[w].dirty :
                  StateProxy_getitem(proxy[w], frame[w].agent[1].name, k)
                      = Some(proxy[w].dirty[k])
        /\ frame[w].exc = Some(TypeError) =>
              /\ frame[w].pc = "raised"
              /\ ghost[w].flushed
              /\ \E k \in DOMAIN proxy[w].dirty :
                    ~Serializable(proxy[w].dirty[k])
        /\ (frame[w].pc \in {"update", "returned"} /\ Persisted(w)) =>
              \A k \in DOMAIN proxy[w].dirty : Serializable(proxy[w].dirty[k])

(* an object() was assigned in a failed attempt and is still readable in
   the next attempt *)
C17_Witness ==
    \E w \in Workers :
        /\ frame[w].pc = "in_fn"
        /\ ghost[w].calls = 2
        /\ "k" \in DOMAIN proxy[w].dirty
        /\ proxy[w].dirty["k"] = PyObject
        /\ StateProxy_getitem(proxy[w], frame[w].agent[1].name, "k")
              = Some(PyObject)

----------------------------------------------------------------------------
(* Properties of the storage layer. *)

(* what a reader on another connection gets for the agent from a
   committed state table *)
ReadOf(table, agent_name) ==
    [k \in DOMAIN table[agent_name] |-> json_loads(table[agent_name][k])]

(* C20: a connection has uncommitted writes only inside a call, and while
   it has, the committed state table is what it was when the call began
   writing; executing a statement publishes nothing; the commit publishes
   all entries of the call at once (the table becomes what the whole bulk
   upsert, or the whole deletion, makes of it); a call that raises on a
   value JSON cannot hold leaves the table as it was before the call; and
   what a reader gets while another thread is inside a call holds none of
   that call's writes. *)
C20_MutatingCallsAtomic ==
    /\ [](\A w \in Workers :
            /\ conn[w].txn # None =>
                  /\ conn[w].pc = "exec"
                  /\ conn[w].before # None
                  /\ agent_state = conn[w].before[1]
            /\ NoCall(w) => conn[w].txn = None)
    /\ [][\A w \in Workers :
            LET c == conn[w]
            IN /\ (c.pc = "exec" /\ conn'[w].pc = "exec" /\ conn'[w] # c) =>
                     agent_state' = agent_state
               /\ (c.pc = "exec" /\ conn'[w].pc = "done") =>
                     agent_state' =
                         IF c.op = "delete_state_keys"
                         THEN delete_state_keys(c.agent, DOMAIN DataOf(c.items))
                         ELSE set_state_bulk(c.agent, DataOf(c.items))
               /\ (c.pc = "exec" /\ conn'[w].pc = "raised") =>
                     /\ agent_state' = agent_state
                     /\ c.before # None => agent_state' = c.before[1]
               /\ (conn'[w].seen # None /\ conn'[w].seen # c.seen) =>
                     \A v \in Workers \ {w} :
                         conn[v].txn # None =>
                             conn'[w].seen[1]
                                 = ReadOf(conn[v].before[1], "a")]_vars

(* one thread is between the two statements of a bulk upsert into an empty
   table and the other thread's read returned an empty state *)
C20_Witness ==
    \E v \in Workers : \E w \in Workers \ {v} :
        /\ conn[v].pc = "exec"
        /\ conn[v].op = "set_state_bulk"
        /\ Len(conn[v].items) = 2
        /\ Len(conn[v].todo) = 1
        /\ conn[v].txn # None
        /\ DOMAIN conn[v].txn[1]["a"] # {}
        /\ conn[v].before = Some(agent_state)
        /\ DOMAIN agent_state["a"] = {}
        /\ conn[w].seen = Some(<<>>)

----------------------------------------------------------------------------
(* Properties of the output capture. *)

(* every chunk in the sequence was written by the thread of execute_agent
   call `w` while it was executing the run with this id *)
OwnChunks(out, id) == \A i \in 1..Len(out) : out[i].run = id

(* C9: whatever the interleaving of two runs of different agents on two
   threads, every piece of text in a stored Run's output, and in a capture
   buffer still being filled, was written by the thread executing that run
   during that run. *)
C9_NoOutputLeakBetweenRuns ==
    /\ \A id \in DOMAIN runs :
          runs[id].output # None => OwnChunks(runs[id].output[1], id)
    /\ \A w \in Workers :
          Persisted(w) =>
              /\ OwnChunks(frame[w].buf, frame[w].run[1].id)
              /\ \A i \in 1..Len(frame[w].buf) : frame[w].buf[i].by = w

(* what thread w wrote to standard output inside the capture scope of its
   current run, in write order *)
Written(w) ==
    LET Mine(c) == /\ c.by = w
                   /\ c.ch = "stdout"
                   /\ c.run = frame[w].run[1].id
    IN SelectSeq(original, Mine)

(* C18: while the capture scope of a run is open its buffer holds exactly
   what the thread has written to standard output inside the scope, in
   write order; and the output stored at finalization is that text, or
   None when nothing was written. *)
C18_OutputIsWhatWasWritten ==
    \A w \in Workers :
        /\ (Persisted(w) /\ local_buf[w] # None) =>
              frame[w].buf = Written(w)
        /\ (Persisted(w) /\ ghost[w].updates = 1) =>
              StoredRun(w)[1].output =
                  IF Written(w) = <<>> THEN None ELSE Some(Written(w))

(* C19: text the callable wrote to standard error inside the capture scope
   of its run is in the run's buffer while the scope is open and in the
   stored output once the run is finalized. *)
C19_StderrCaptured ==
    \A w \in Workers :
        Persisted(w) =>
            \A i \in 1..Len(original) :
                (/\ original[i].by = w
                 /\ original[i].ch = "stderr"
                 /\ original[i].run = frame[w].run[1].id) =>
                    /\ local_buf[w] # None =>
                          \E j \in 1..Len(frame[w].buf) :
                              frame[w].buf[j] = original[i]
                    /\ ghost[w].updates = 1 =>
                          /\ StoredRun(w)[1].output # None
                          /\ \E j \in 1..Len(StoredRun(w)[1].output[1]) :
                                StoredRun(w)[1].output[1][j] = original[i]

(* both threads are inside their callables at the same time, each has
   printed into its own buffer, and the two wrote one after the other *)
C9_Witness ==
    /\ frame["w1"].pc = "in_fn" /\ frame["w2"].pc = "in_fn"
    /\ frame["w1"].buf # <<>> /\ frame["w2"].buf # <<>>
    /\ Len(original) >= 2
    /\ original[1].by # original[2].by

----------------------------------------------------------------------------
(* Properties of the counter agent. *)

CountText(n) ==
    <<"count=1", "count=2", "count=3", "count=4", "count=5", "count=6">>[n]

(* C10: the n-th run of the counter agent that gets past save_run returns
   result count=n and leaves the number n under "count" in storage; while
   it runs, storage still holds what run n-1 left. *)
C10_CounterPersistsAcrossRuns ==
    \A w \in Workers :
        LET n == Cardinality(DOMAIN runs)
            stored == get_state("a")
        IN /\ (frame[w].pc = "returned" =>
                 /\ frame[w].ret[1].result = Some(CountText(n))
                 /\ frame[w].ret[1].status = "success"
                 /\ DOMAIN stored = {"count"}
                 /\ stored["count"] = PyInt(n))
           /\ (InLoop(w) =>
                 IF n = 1 THEN DOMAIN stored = {}
                 ELSE DOMAIN stored = {"count"}
                      /\ stored["count"] = PyInt(n - 1))

C10_Witness ==
    \E w \in Workers :
        /\ frame[w].pc = "returned"
        /\ Cardinality(DOMAIN runs) = MaxCount
        /\ frame[w].ret[1].result = Some("count=3")
        /\ agent_state["a"]["count"] = [js |-> "number", n |-> 3, s |-> ""]

----------------------------------------------------------------------------
(* C21: two concurrent runs of the same agent work on independent state
   proxies and nothing locks them: a step of one run never changes the
   other run's proxy, and a flush stores the flushing run's pending values
   whatever the table held, so of two runs that loaded before either
   flushed the later flush wins and the earlier update is lost. *)
C21_LastFlushWins ==
    [][\A w \in Workers :
          /\ (\E v \in Workers \ {w} : frame'[v] # frame[v])
                => proxy'[w] = proxy[w]
          /\ (frame[w].pc = "flush_set" /\ frame'[w].pc = "update")
                => \A k \in DOMAIN proxy[w].dirty :
                      /\ k \in DOMAIN agent_state'[frame[w].agent[1].name]
                      /\ agent_state'[frame[w].agent[1].name][k]
                            = json_dumps(proxy[w].dirty[k])]_vars

(* both counter runs returned count=1 and storage holds count 1 *)
C21_Witness ==
    /\ \A w \in Workers :
          /\ frame[w].pc = "returned"
          /\ runs[frame[w].run[1].id].result = Some("count=1")
    /\ frame["w1"].run[1].id # frame["w2"].run[1].id
    /\ agent_state["a"] = [k \in {"count"} |-> json_dumps(PyInt(1))]

----------------------------------------------------------------------------
(* C22: whatever the interleaving of concurrent runs, a step changes a row
   of the runs table only when it is the finalization of the run with that
   id, and then the row keeps its id, agent and started_at; every other row
   is left as it was. *)
C22_UpdateTouchesOwnRowOnly ==
    [][\A id \in DOMAIN runs :
          /\ id \in DOMAIN runs'
          /\ runs'[id] # runs[id] =>
                /\ \E w \in Workers :
                      /\ frame[w].pc = "update"
                      /\ frame[w].run[1].id = id
                      /\ frame'[w].pc \in {"returned", "raised"}
                /\ runs'[id].id = runs[id].id
                /\ runs'[id].agent = runs[id].agent
                /\ runs'[id].started_at = runs[id].started_at]_vars

(* one run is finalized while the other run of the same agent is still
   running, and the other's row still says so *)
C22_Witness ==
    \E w \in Workers, v \in Workers :
        /\ frame[w].pc = "returned"
        /\ runs[frame[w].run[1].id].status = "success"
        /\ frame[v].pc \in {"in_fn", "finally", "flush_set", "update"}
        /\ frame[v].run[1].id # frame[w].run[1].id
        /\ runs[frame[v].run[1].id].status = "running"
        /\ runs[frame[v].run[1].id].finished_at = None

----------------------------------------------------------------------------
(* C23: registering under a name already registered raises nothing and
   replaces the entry: each registration leaves the registry with the new
   agent under its name and every other name as it was, so the registry
   holds one agent per name, the one registered last. *)
C23_LastRegistrationWins ==
    /\ [](\A n \in DOMAIN registry : registry[n].name = n)
    /\ [][call'.op = "agent" =>
            LET a == call'.args
                n == agent_name_of(a.name, a.fn)
            IN /\ call'.exc = None
               /\ DOMAIN registry' = DOMAIN registry \cup {n}
               /\ registry'[n] = Agent(n, a.fn, a.schedule, a.retries)
               /\ \A m \in DOMAIN registry \ {n} :
                     registry'[m] = registry[m]]_vars

(* a second function was registered under a name that held another one *)
C23_Witness ==
    /\ call.op = "agent"
    /\ call.args.name = Some("a")
    /\ call.args.fn = [name |-> "b", def |-> 1]
    /\ call.log = Some([name |-> "a", def |-> 1])
    /\ registry["a"].fn = [name |-> "b", def |-> 1]
    /\ "b" \in DOMAIN registry
    /\ registry["b"].fn = [name |-> "b", def |-> 1]

----------------------------------------------------------------------------
(* C24: sync_agent is an upsert keyed by name: every call leaves one row
   under its name carrying the schedule and retries it was given, adds no
   other row and leaves every other agent's row as it was. *)
C24_SyncAgentUpserts ==
    [][call'.op = "sync_agent" =>
          LET a == call'.args
          IN /\ DOMAIN agents' = DOMAIN agents \cup {a.name}
             /\ agents'[a.name] = [schedule |-> a.schedule_str,
                                   retries |-> a.retries]
             /\ \A n \in DOMAIN agents \ {a.name} :
                   agents'[n] = agents[n]]_vars

(* the last call was for "a", with a schedule and retries only a call
   after the one that gave "b" its row can have passed; the row of "a"
   carries them and the row of "b" is in the table *)
C24_Witness ==
    /\ call.op = "sync_agent"
    /\ call.args = [name |-> "a", schedule_str |-> Some("every 2h"),
                    retries |-> 2]
    /\ agents = [n \in {"a", "b"} |->
                    IF n = "a" THEN [schedule |-> Some("every 2h"), retries |-> 2]
                    ELSE [schedule |-> Some("every 1h"), retries |-> 0]]

----------------------------------------------------------------------------
(* C25: Watchd.run(name) for a name that is not registered raises KeyError:
   from the call to the exception no row is added to or changed in the runs
   table and the engine is not entered, so no callable is invoked. *)
C25_UnknownAgentRaisesKeyError ==
    /\ [][(app'.pc = "execute" /\ app.pc # "execute")
            => (runs' = runs /\ ghost' = ghost)]_vars
    /\ [][(app.pc = "execute" /\ app.name \notin DOMAIN app.agents)
            => /\ app'.pc = "raised"
               /\ app'.exc = Some(KeyError(app.name))
               /\ runs' = runs
               /\ frame' = frame
               /\ ghost' = ghost]_vars

(* run("not_real") raised KeyError with agents registered and a Run row of
   an earlier run in the table *)
C25_Witness ==
    /\ app.pc = "raised"
    /\ app.name = "not_real"
    /\ app.exc = Some(KeyError("not_real"))
    /\ app.agents # <<>>
    /\ runs # <<>>

----------------------------------------------------------------------------
(* C26: in a deploy the dependencies are installed in the new release
   before `current` is swapped and the service is restarted after the swap;
   the swap runs only when every command before it succeeded, so a failure
   before the swap leaves `current` on the previous release. *)
Ran(step, i) == i \in 1..Len(remote.log) /\ remote.log[i].step = step

C26_SyncSwapRestartInOrder ==
    /\ [](\A i \in 1..Len(remote.log) :
            /\ Ran("swap", i) =>
                  /\ \E j \in 1..(i - 1) :
                        Ran("uv_sync", j) /\ remote.log[j].ok
                  /\ \A j \in 1..(i - 1) : remote.log[j].ok
            /\ Ran("restart", i) =>
                  \E j \in 1..(i - 1) : Ran("swap", j) /\ remote.log[j].ok)
    /\ []((remote.pc = "raised" /\ \A i \in 1..Len(remote.log) :
                                      ~(Ran("swap", i) /\ remote.log[i].ok))
            => remote.current = remote.prev)
    /\ []((remote.current # 0) => remote.current \in remote.synced)

(* a second deploy failed installing its dependencies: `current` still
   points to the first release, which the service runs *)
C26_Witness ==
    /\ remote.pc = "raised"
    /\ remote.ts = 2
    /\ remote.log[Len(remote.log)] = [step |-> "uv_sync", ok |-> FALSE]
    /\ remote.current = 1
    /\ remote.service = 1

----------------------------------------------------------------------------
(* C27: a db path that is absolute or has a ".." component makes deploy
   exit with SystemExit before it deploys: no command of such a deploy runs
   on the host, and the call ends in SystemExit. *)
UnsafeDbPath(db) == db.abs \/ \E i \in 1..Len(db.parts) : db.parts[i] = ".."

C27_RejectsUnsafeDbPath ==
    (remote.config # None /\ UnsafeDbPath(remote.config[1].db))
        => /\ remote.pc # "done"
           /\ remote.pc = "raised" => remote.exc = Some(SystemExit)
           /\ \A i \in 1..Len(remote.log) :
                 remote.log[i].step \in
                     {"validate_local", "resolve_config", "preflight"}

----------------------------------------------------------------------------
(* C28: a file that fails to load with a syntax error or an import error
   does not abort discover_agents: the file is logged as failed and the
   scan goes on, and the result holds, for every agent name a loadable
   non-underscore file registers, the agent of the last file that
   registered the name. *)
Loads(i) ==
    /\ ~Underscore(Paths[i])
    /\ discovery.dir[1][i].agent # None

C28_FailingFileSkipped ==
    (/\ discovery.dir # None
     /\ \A i \in 1..Len(Paths) :
           Underscore(Paths[i]) \/ discovery.dir[1][i].ends # "exits")
        => /\ discovery.pc # "raised"
           /\ \A i \in 1..(discovery.i - 1) :
                 (/\ ~Underscore(Paths[i])
                  /\ discovery.dir[1][i].ends
                         \in {"syntax_error", "import_error"})
                    => Paths[i] \in discovery.failed
           /\ discovery.pc = "done" =>
                 \A i \in 1..Len(Paths) :
                    (Loads(i) /\ discovery.dir[1][i].ends = "ok") =>
                       LET n == discovery.dir[1][i].agent[1]
                           last == CHOOSE j \in i..Len(Paths) :
                                      /\ Loads(j)
                                      /\ discovery.dir[1][j].agent = Some(n)
                                      /\ \A k \in (j + 1)..Len(Paths) :
                                            ~(Loads(k) /\
                                              discovery.dir[1][k].agent = Some(n))
                       IN /\ n \in DOMAIN discovery.result[1]
                          /\ discovery.result[1][n].fn = FnOf(last, n)

(* a file with a syntax error was visited and skipped, then a loadable
   file, then a file with an import error: the agent of the loadable file
   is returned *)
C28_Witness ==
    /\ discovery.pc = "done"
    /\ discovery.dir # None
    /\ discovery.dir[1][1] = [agent |-> Some("b"), ends |-> "ok"]
    /\ discovery.dir[1][2].ends = "syntax_error"
    /\ discovery.dir[1][3] = [agent |-> Some("a"), ends |-> "ok"]
    /\ discovery.dir[1][4] = [agent |-> None, ends |-> "import_error"]
    /\ discovery.failed = {"m1.py", "pkg/agent.py"}
    /\ DOMAIN discovery.result[1] = {"a"}

----------------------------------------------------------------------------
(* C29: a flush of a loaded proxy first removes every key pending deletion
   from storage, then stores every pending upsert, and when it returns both
   pending sets are empty; a flush made right after a flush that returned
   makes no storage call and leaves storage as it is. *)
C29_FlushDeletesThenUpserts ==
    [][LET p == proxy["w1"]
           q == proxy'["w1"]
       IN /\ (~InFlush /\ call'.op = "flush_deletes") =>
                /\ agent_state'["a"] =
                      [k \in DOMAIN agent_state["a"] \ p.deleted_keys |->
                          agent_state["a"][k]]
                /\ q.deleted_keys = {}
                /\ q.dirty = p.dirty
                /\ call'.args.calls =
                      IF p.deleted_keys # {} THEN <<"delete_state_keys">>
                      ELSE <<>>
          /\ (InFlush /\ call'.op = "flush" /\ call'.exc = None) =>
                /\ agent_state'["a"] =
                      [k \in DOMAIN agent_state["a"] \cup DOMAIN p.dirty |->
                          IF k \in DOMAIN p.dirty THEN json_dumps(p.dirty[k])
                          ELSE agent_state["a"][k]]
                /\ q.dirty = <<>>
                /\ q.deleted_keys = {}
                /\ call'.args.calls =
                      IF p.dirty # <<>>
                      THEN Append(call.args.calls, "set_state_bulk")
                      ELSE call.args.calls
          /\ (call'.op \in {"flush", "flush_deletes"} /\ call'.args.repeat) =>
                /\ call'.args.calls = <<>>
                /\ agent_state' = agent_state]_vars

(* a flush returned after deleting one stored key and storing another *)
C29_Witness ==
    /\ call.op = "flush"
    /\ call.exc = None
    /\ call.args.calls = <<"delete_state_keys", "set_state_bulk">>
    /\ agent_state["a"] = [k \in {"j"} |-> json_dumps(PyInt(2))]
    /\ proxy["w1"].dirty = <<>>
    /\ proxy["w1"].deleted_keys = {}

----------------------------------------------------------------------------
(* C30: whatever items were assigned and deleted, every key with a pending
   upsert is in the in-memory data with the same value; a delete leaves its
   key out of the data, pending deletion and without a pending upsert, and
   an assignment or delete of another key does not change that. *)
InData(p, k) == p.data # None /\ k \in DOMAIN p.data[1]

C30_PendingSetsFollowLastOperation ==
    /\ [](\A k \in DOMAIN proxy["w1"].dirty :
            /\ InData(proxy["w1"], k)
            /\ proxy["w1"].data[1][k] = proxy["w1"].dirty[k])
    /\ [][LET p == proxy["w1"]
               q == proxy'["w1"]
           IN /\ (call'.op = "delitem" /\ call'.exc = None) =>
                    /\ ~InData(q, call'.args.key)
                    /\ call'.args.key \in q.deleted_keys
                    /\ call'.args.key \notin DOMAIN q.dirty
              /\ (call'.op \in {"setitem", "delitem"} /\ p.data # None) =>
                    \A k \in StoreKeys \ {call'.args.key} :
                       /\ InData(q, k) = InData(p, k)
                       /\ (k \in q.deleted_keys) = (k \in p.deleted_keys)
                       /\ (k \in DOMAIN q.dirty) = (k \in DOMAIN p.dirty)]_vars

(* a key was assigned and then deleted while another key has a pending
   upsert, and storage still holds the deleted key *)
C30_Witness ==
    /\ call.op = "delitem"
    /\ call.exc = None
    /\ call.args.key = "k"
    /\ "k" \in proxy["w1"].deleted_keys
    /\ DOMAIN proxy["w1"].dirty = {"j"}
    /\ DOMAIN proxy["w1"].data[1] = {"j"}
    /\ "k" \in DOMAIN agent_state["a"]

----------------------------------------------------------------------------
(* C31: every write to the wrapped standard output goes to the original
   stream, once; it is also appended, once, to the buffer of the writing
   thread when that thread is inside a capture scope, and to no buffer when
   it is not; no other thread's buffer changes. *)
WroteNow(w) == ghost'[w].writes = ghost[w].writes + 1

C31_WriteForwardedAndCaptured ==
    [][\A w \in Workers :
          (WroteNow(w) /\ stdout_depth >= 1) =>
             /\ original' = Append(original, Chunk(w, "x"))
             /\ \A v \in Workers :
                   frame'[v].buf =
                      IF v = w /\ local_buf[w] # None
                      THEN Append(frame[v].buf, Chunk(w, "x"))
                      ELSE frame[v].buf]_vars

----------------------------------------------------------------------------
(* C32: one state proxy serves all attempts of a run: between the first
   attempt and the finalization only the callable's own state operations
   change it, so what a failed attempt assigned or deleted is what the next
   attempt sees; and once the run is finalized, whatever its status and
   whether or not it was interrupted, storage holds exactly the proxy's
   data. *)
StoredData(p) == [k \in DOMAIN p.data[1] |-> json_dumps(p.data[1][k])]

C32_ProxySharedByAttemptsAndFlushed ==
    /\ [][\A w \in Workers :
            (proxy'[w] # proxy[w]) =>
               \/ frame[w].pc = "in_fn" /\ frame'[w].pc = "in_fn"
               \/ frame[w].pc \in {"finally", "flush_set"}
               \/ Finished(w)]_vars
    /\ [](\A w \in Workers :
            (Left(w) /\ ghost[w].updates = 1 /\ proxy[w].data # None) =>
               agent_state[frame[w].agent[1].name] = StoredData(proxy[w]))

(* the first run on an empty state table: an attempt failed, a later
   attempt was interrupted, the row says error and the key assigned in the
   run is in storage *)
C32_Witness ==
    /\ frame["w1"].pc = "raised"
    /\ frame["w1"].pend # None
    /\ ghost["w1"].fails >= 1
    /\ ghost["w1"].updates = 1
    /\ Cardinality(DOMAIN runs) = 1
    /\ StoredRun("w1")[1].status = "error"
    /\ "k" \in DOMAIN agent_state["a"]

----------------------------------------------------------------------------
(* C33: the finalization flush comes before the row update: in every state
   in which the row of a run has status success or error, the run's proxy
   has nothing pending and, when it was loaded, storage holds its data; and
   the step that makes the row terminal changes nothing in the state
   table. *)
C33_StateCommittedBeforeTerminalRow ==
    /\ [](\A w \in Workers :
            (Persisted(w) /\ StoredRun(w)[1].status \in {"success", "error"})
               => /\ proxy[w].dirty = <<>>
                  /\ proxy[w].deleted_keys = {}
                  /\ proxy[w].data # None =>
                        agent_state[frame[w].agent[1].name]
                           = StoredData(proxy[w]))
    /\ [][\A id \in DOMAIN runs :
            (id \in DOMAIN runs' /\ runs[id].status = "running"
                /\ runs'[id].status # "running")
               => agent_state' = agent_state]_vars

(* the flush has stored a key and the row of the run still says running:
   the row update has not been made yet *)
C33_Witness ==
    /\ frame["w1"].pc = "update"
    /\ StoredRun("w1")[1].status = "running"
    /\ frame["w1"].run[1].status = "success"
    /\ "k" \in DOMAIN agent_state["a"]
    /\ Cardinality(DOMAIN runs) = 1

----------------------------------------------------------------------------
(* C34: a key that was deleted and then assigned again through the same
   proxy is both pending for deletion and pending for upsert.  The flush
   first deletes it from storage and forgets the deletion, keeping the
   pending value; the upsert that follows stores that value; and after a
   flush that returned, this one or a later one, every key of the proxy's
   data is in storage with the value of the data. *)
Reassigned(p, k) == k \in p.deleted_keys /\ k \in DOMAIN p.dirty

C34_ReassignedKeySurvivesFlush ==
    /\ [][\A k \in StoreKeys :
            /\ (~InFlush /\ InFlush' /\ Reassigned(proxy["w1"], k)) =>
                  /\ k \notin DOMAIN agent_state'["a"]
                  /\ k \notin proxy'["w1"].deleted_keys
                  /\ k \in DOMAIN proxy'["w1"].dirty
                  /\ proxy'["w1"].dirty[k] = proxy["w1"].dirty[k]
            /\ (InFlush /\ call'.op = "flush" /\ call'.exc = None
                   /\ k \in DOMAIN proxy["w1"].dirty) =>
                  /\ k \in DOMAIN agent_state'["a"]
                  /\ agent_state'["a"][k] = json_dumps(proxy["w1"].dirty[k])]_vars
    /\ []((call.op = "flush" /\ call.exc = None /\ proxy["w1"].data # None) =>
             \A k \in DOMAIN proxy["w1"].data[1] :
                /\ k \in DOMAIN agent_state["a"]
                /\ agent_state["a"][k] = json_dumps(proxy["w1"].data[1][k]))

(* a flush that made both storage calls has returned and the data holds
   both keys: a key of the deletion call is in the data, so it was assigned
   again after its deletion, and storage holds "k" with the value 2, which
   no initial state table has *)
C34_Witness ==
    /\ call.op = "flush"
    /\ call.exc = None
    /\ call.args.calls = <<"delete_state_keys", "set_state_bulk">>
    /\ proxy["w1"].data # None
    /\ DOMAIN proxy["w1"].data[1] = StoreKeys
    /\ "k" \in DOMAIN agent_state["a"]
    /\ agent_state["a"]["k"] = json_dumps(PyInt(2))
    /\ "j" \in DOMAIN agent_state["a"]

----------------------------------------------------------------------------
(* C35: with one proxy as the only writer of the agent's state, after a
   flush that returned, what get_state reads from storage equals the
   proxy's in-memory mapping. *)
FlushReturned ==
    /\ call.op = "flush"
    /\ call.exc = None
    /\ proxy["w1"].data # None

C35_StorageEqualsMemoryAfterFlush ==
    FlushReturned => get_state("a") = proxy["w1"].data[1]

(* C35 as the code has it: after a flush that returned, get_state has the
   keys of the in-memory mapping and, for each key, the value that
   json.loads gives for the json.dumps of the in-memory value; the mapping
   itself is left as it was assigned. *)
RoundTrip(m) == [k \in DOMAIN m |-> json_loads(json_dumps(m[k]))]

C35_StorageEqualsRoundTripAfterFlush ==
    FlushReturned => get_state("a") = RoundTrip(proxy["w1"].data[1])

(* a flush stored a tuple: memory holds the tuple, storage reads back as a
   list, next to a key whose integer reads back as it is *)
C35_Witness ==
    /\ FlushReturned
    /\ call.args.calls = <<"set_state_bulk">>
    /\ DOMAIN proxy["w1"].data[1] = StoreKeys
    /\ proxy["w1"].data[1]["k"] = PyTuple(1)
    /\ get_state("a")["k"] = PyList(1)
    /\ proxy["w1"].data[1]["j"] = PyInt(2)
    /\ get_state("a")["j"] = PyInt(2)

----------------------------------------------------------------------------
(* C36: when the bulk upsert of a flush raises, the state table is left as
   the deletions of that flush made it: no pending upsert is stored, not
   even a serializable one, the pending upserts stay pending, every key
   deleted by the flush is still absent from storage and the pending
   deletions are already forgotten. *)
UpsertFailed ==
    /\ call.op = "flush"
    /\ call.exc = Some(TypeError)

C36_FailedUpsertKeepsDeletions ==
    /\ [][(InFlush /\ UpsertFailed') =>
            /\ agent_state' = agent_state
            /\ proxy'["w1"].dirty = proxy["w1"].dirty
            /\ proxy'["w1"].deleted_keys = {}
            /\ call'.args.deleted = call.args.deleted]_vars
    /\ [](UpsertFailed =>
            /\ proxy["w1"].deleted_keys = {}
            /\ \A k \in call.args.deleted : k \notin DOMAIN agent_state["a"]
            /\ \E k \in DOMAIN proxy["w1"].dirty :
                  ~Serializable(proxy["w1"].dirty[k]))

(* the flush deleted "k" and then failed on the value of "j": "k", assigned
   again with a value JSON can hold, is still pending and not in storage *)
C36_Witness ==
    /\ UpsertFailed
    /\ call.args.calls = <<"delete_state_keys", "set_state_bulk">>
    /\ call.args.deleted = {"k"}
    /\ DOMAIN proxy["w1"].dirty = StoreKeys
    /\ proxy["w1"].dirty["k"] = PyInt(2)
    /\ proxy["w1"].dirty["j"] = PyObject
    /\ agent_state["a"] = <<>>

----------------------------------------------------------------------------
(* C37: a step changes a key of the agent's state in storage only as part
   of the flush of a proxy for which that key is pending, and a key is
   pending for a proxy only when the callable assigned or deleted it: the
   load of a read makes nothing pending.  So when both of two concurrent
   runs that modify different keys have flushed, whichever flushed first,
   storage holds for each run's key what that run left in its data. *)
KeyChanged(k) ==
    \/ (k \in DOMAIN agent_state["a"]) # (k \in DOMAIN agent_state'["a"])
    \/ /\ k \in DOMAIN agent_state["a"]
       /\ k \in DOMAIN agent_state'["a"]
       /\ agent_state'["a"][k] # agent_state["a"][k]

PendingKeys(p) == DOMAIN p.dirty \cup p.deleted_keys

OwnKeyStored(w) ==
    LET k == OwnKey(w)
        data == proxy[w].data[1]
    IN IF k \in DOMAIN data
       THEN k \in DOMAIN agent_state["a"]
               /\ agent_state["a"][k] = json_dumps(data[k])
       ELSE k \notin DOMAIN agent_state["a"]

C37_FlushTouchesOnlyModifiedKeys ==
    /\ [][\A k \in StoreKeys :
            KeyChanged(k) =>
               \E w \in Workers :
                  /\ frame[w].pc \in {"finally", "flush_set"}
                  /\ frame'[w].pc # frame[w].pc
                  /\ k \in PendingKeys(proxy[w])]_vars
    /\ [](\A w \in Workers : PendingKeys(proxy[w]) \subseteq {OwnKey(w)})
    /\ []((\A w \in Workers : frame[w].pc \in {"update", "returned"}
                                 /\ proxy[w].data # None)
             => \A w \in Workers : OwnKeyStored(w))

(* both runs loaded the state table before either flushed, w1 assigned "k"
   and w2 assigned "j"; both have flushed and returned: each proxy still
   has the old value of the other's key, and storage has both new values *)
C37_Witness ==
    /\ \A w \in Workers : frame[w].pc = "returned" /\ proxy[w].data # None
    /\ proxy["w1"].data[1] = [x \in StoreKeys |->
                                 IF x = "k" THEN PyInt(2) ELSE PyInt(1)]
    /\ proxy["w2"].data[1] = [x \in StoreKeys |->
                                 IF x = "j" THEN PyInt(2) ELSE PyInt(1)]
    /\ get_state("a") = [x \in StoreKeys |-> PyInt(2)]

----------------------------------------------------------------------------
(* C38: in every state each row of runs and each row of agent_state names
   an agent of the agents table.  A call of execute_agent for a name that is
   not in the agents table ends at save_run with IntegrityError: no row is
   inserted, no Run is kept, the callable is never invoked. *)
Unsynced(w) ==
    /\ frame[w].pc = "begin"
    /\ frame[w].agent[1].name \notin DOMAIN agents

C38_ReferentialIntegrity ==
    /\ [](/\ \A id \in DOMAIN runs : runs[id].agent \in DOMAIN agents
          /\ \A a \in AgentNames :
                agent_state[a] # <<>> => a \in DOMAIN agents)
    /\ [][\A w \in Workers :
            (Unsynced(w) /\ frame'[w] # frame[w]) =>
               /\ frame'[w].pc = "raised"
               /\ frame'[w].exc = Some(IntegrityError)
               /\ frame'[w].run = None
               /\ runs' = runs
               /\ ghost'[w].calls = 0]_vars

(* agent "a" has a finished run and state; the call for "b", never synced,
   has raised at save_run without a row and without a call of the
   callable; a direct set_state for "b" stored nothing either *)
C38_Witness ==
    /\ "b" \notin DOMAIN agents
    /\ frame["w1"].pc = "raised"
    /\ frame["w1"].agent[1].name = "b"
    /\ frame["w1"].exc = Some(IntegrityError)
    /\ ghost["w1"].calls = 0
    /\ \E id \in DOMAIN runs : runs[id].agent = "a"
    /\ \A id \in DOMAIN runs : runs[id].agent # "b"
    /\ agent_state["a"] # <<>>
    /\ agent_state["b"] = <<>>
    /\ call.op = "set_state"
    /\ call.args.agent = "b"
    /\ call.exc = Some(IntegrityError)

----------------------------------------------------------------------------
(* C39: a worker's capture handle is either unset or the buffer of the call
   that worker is in, and it is unset whenever the worker is outside
   execute_agent, however the call ended: by its return, by an exception of
   the callable, of save_run, of the flush or of the row update.  What a
   worker writes outside a call is therefore appended to no buffer and
   changes no row. *)
C39_HandleClearedOnExit ==
    /\ [](\A w \in Workers :
            /\ local_buf[w] \in {None, Some(w)}
            /\ Finished(w) => local_buf[w] = None)
    /\ [][\A w \in Workers :
            (Finished(w) /\ WroteNow(w)) =>
               /\ \A v \in Workers : frame'[v].buf = frame[v].buf
               /\ runs' = runs]_vars

(* w1 has left its call through the TypeError of the flush and has written
   outside a call: the text reached the stream and no buffer, not its own
   and not that of w2, which is inside its callable with its handle set *)
C39_Witness ==
    /\ frame["w1"].pc = "raised"
    /\ frame["w1"].exc = Some(TypeError)
    /\ local_buf["w1"] = None
    /\ ghost["w1"].writes = 1
    /\ Len(original) >= 1
    /\ frame["w1"].buf = <<>>
    /\ frame["w2"].pc = "in_fn"
    /\ local_buf["w2"] = Some("w2")
    /\ frame["w2"].buf = <<>>
    /\ ghost["w2"].writes = 0

----------------------------------------------------------------------------
(* C40: when execute_agent has returned a Run, get_run of its id finds a
   row, and the Run made from the row has the id, agent, status, result,
   output, error and duration_ms of the returned Run. *)
SameOutcome(r, b) ==
    /\ b.id = r.id
    /\ b.agent = r.agent
    /\ b.status = r.status
    /\ b.result = r.result
    /\ b.output = r.output
    /\ b.error = r.error
    /\ b.duration_ms = r.duration_ms

C40_ReadBackEqualsReturned ==
    \A w \in Workers :
        frame[w].pc = "returned" =>
            /\ get_run(frame[w].ret[1].id) # None
            /\ SameOutcome(frame[w].ret[1], get_run(frame[w].ret[1].id)[1])

(* the second run of the worker returned with status error after its
   callable printed: output, error and duration are set, in the returned
   Run and in the one read back *)
C40_Witness ==
    /\ frame["w1"].pc = "returned"
    /\ Cardinality(DOMAIN runs) = 2
    /\ frame["w1"].ret[1].status = "error"
    /\ frame["w1"].ret[1].output # None
    /\ frame["w1"].ret[1].error # None
    /\ frame["w1"].ret[1].duration_ms # None
    /\ get_run(frame["w1"].ret[1].id)[1].output = frame["w1"].ret[1].output
    /\ get_run(frame["w1"].ret[1].id)[1].error = frame["w1"].ret[1].error

====
